---- MODULE Spec2Model ----
(***************************************************************************)
(* Focus0: the Pomodoro phase clock (src/hooks/usePomodoro.ts) as wired    *)
(* into UnifiedProgress, the session view (src/components/SessionView.tsx) *)
(* with its focus-time tick and its auto-save to local storage             *)
(* (src/lib/session.ts), the window-focus accumulator                      *)
(* (src/hooks/useWindowFocus.ts) and the session sharing routes            *)
(* (src/app/api/sessions/*.ts).                                            *)
(*                                                                         *)
(* Strings are TLA+ strings.  An optional property of a JavaScript object  *)
(* that is missing is the value Absent; a property that is present with    *)
(* the value undefined is Undef (JSON.stringify drops it).                 *)
(***************************************************************************)
EXTENDS Integers, Sequences, FiniteSets, TLC

VARIABLES
  state,            \* usePomodoro: the PomodoroState held by useState
  currentSession,   \* SessionView: the StudySession held by useState
  isWindowFocused,  \* SessionView: result of useWindowFocus
  isVideoPlaying,   \* SessionView: useState(false)
  localStorage,     \* the parsed value of localStorage['focus0_sessions']
  savedSessions,    \* Home: the list held by useState, shown as Saved Sessions
  lastOp,           \* history: the last operation that wrote the PomodoroState
  now,              \* the clock read by Date.now()
  focusStartTime,   \* useWindowFocus: useState(Date.now())
  totalFocusTime,   \* useWindowFocus: useState(0)
  visibilityListeners, \* the visibilitychange listeners on window, each by
                       \* the focusStartTime its handleBlur closed over
  docHasFocus,      \* the browser: document.hasFocus()
  docHidden,        \* the browser: document.hidden
  focusedTime,      \* history: time the window really had focus since
                    \* mount or the last resetFocusTime
  countedSince,     \* history: the time of mount or of the last resetFocusTime
  serverNow,        \* route.ts: the clock of the server instance, in days
  serverSessions,   \* route.ts: the Map sessions of shared sessions, by id
  http,             \* the last request to /api/sessions and its response
  issued,           \* history: the shares created, with what was shared
  sharedPage,       \* session/[id]/page.tsx: what the recipient's page holds
  route,            \* which of the URL-embedding routes serves /api/sessions
  memory,           \* that route's Map of sessions, by id
  posted,           \* the body posted to that route
  shareLink,        \* the id and the data parameters (none or one) of the
                    \* share URL it returned
  fetched,          \* the result of the last GET with that id and data
  apiKey,           \* process.env.NEXT_PUBLIC_YOUTUBE_API_KEY
  pastedUrls,       \* the lines handed to parseYouTubeUrlsAsync
  parsed,           \* what parseYouTubeUrlsAsync resolved to
  apiCalls,         \* the calls of YouTubeAPI methods it made
  closureSession    \* SessionView: the currentSession that the callbacks of
                    \* the last committed render closed over

\* The session view with its Pomodoro clock.
viewVars == <<state, currentSession, isVideoPlaying, localStorage,
              savedSessions, lastOp>>

\* The useWindowFocus hook and the browser it listens to.
hookVars == <<focusStartTime, totalFocusTime, visibilityListeners,
              docHasFocus, docHidden, focusedTime, countedSince>>

\* The active sharing route, its clients, and the recipient's page.
shareVars == <<serverNow, serverSessions, http, issued, sharedPage>>

\* The routes that embed the session in the share URL.
urlVars == <<route, memory, posted, shareLink, fetched>>

\* The asynchronous parser of pasted URLs and its environment.
inputVars == <<apiKey, pastedUrls, parsed, apiCalls>>

\* What the callbacks of the session view hold between two renders.
renderVars == <<closureSession>>

vars == <<state, currentSession, isWindowFocused, isVideoPlaying, localStorage,
          savedSessions,
          lastOp, now, hookVars, shareVars, urlVars, inputVars, renderVars>>

(***************************************************************************)
(* Bounds of the model.                                                    *)
(***************************************************************************)
MaxPomodoros == 3      \* completed work phases explored before a reset
MaxFocusTime == 2      \* seconds of focus time explored in the session view
MaxNow == 3            \* clock readings explored by the focus hook
MaxTotalFocusTime == 6 \* accumulated focus time beyond which no more is added
MaxShares == 2         \* shares created on the server instance
MaxDrift == 2          \* single days the server clock advances within a period
MaxPeriods == 1        \* periods of thirty days the server clock advances

Absent == "<absent>"
Undef == "<undefined>"

(***************************************************************************)
(* src/lib/session.ts                                                      *)
(***************************************************************************)
DEFAULT_POMODORO_SETTINGS ==
  [workDuration |-> 25, shortBreakDuration |-> 5,
   longBreakDuration |-> 15, longBreakInterval |-> 4]

\* JSON.stringify followed by JSON.parse of one video: a property whose
\* value is undefined is not written, so it is missing after the parse.
JsonVideo(v) ==
  [id |-> v.id, url |-> v.url,
   title |-> IF v.title = Undef THEN Absent ELSE v.title,
   thumbnail |-> IF v.thumbnail = Undef THEN Absent ELSE v.thumbnail]

JsonVideos(vs) == [i \in 1..Len(vs) |-> JsonVideo(vs[i])]

JsonPlaylist(p) ==
  [id |-> p.id, url |-> p.url,
   title |-> IF p.title = Undef THEN Absent ELSE p.title,
   videos |-> JsonVideos(p.videos)]

JsonPlaylists(ps) == [i \in 1..Len(ps) |-> JsonPlaylist(ps[i])]

\* JSON.stringify / JSON.parse of a StudySession (numbers and strings are
\* written as they are; videos and playlists lose undefined properties).
JsonSession(s) ==
  [s EXCEPT !.videos = JsonVideos(s.videos),
            !.playlists = JsonPlaylists(s.playlists)]

\* getSavedSessions: the parsed array, [] when nothing was stored.
getSavedSessions == localStorage

\* findIndex(s => s.id === id): the first index (1-based here), 0 for -1.
findIndex(sessions, id) ==
  IF \E i \in 1..Len(sessions) : sessions[i].id = id
  THEN CHOOSE i \in 1..Len(sessions) :
         /\ sessions[i].id = id
         /\ \A j \in 1..(i - 1) : sessions[j].id # id
  ELSE 0

\* saveSession without the lookup of an existing entry.
saveSession_alwaysPush(session) ==
  Append(getSavedSessions, JsonSession(session))

\* saveSession: replace the entry with the same id or push, then setItem.
saveSession(session) ==
  LET sessions == getSavedSessions
      existingIndex == findIndex(sessions, session.id)
  IN IF existingIndex >= 1
     THEN [sessions EXCEPT ![existingIndex] = JsonSession(session)]
     ELSE Append(sessions, JsonSession(session))

\* the value null, where a StudySession is expected
NullSession == [id |-> "null"]

\* getSessionById: find(s => s.id === sessionId) || null
getSessionById(sessionId) ==
  LET sessions == getSavedSessions
      i == findIndex(sessions, sessionId)
  IN IF i >= 1 THEN sessions[i] ELSE NullSession

(***************************************************************************)
(* src/hooks/usePomodoro.ts                                                *)
(***************************************************************************)
settings == currentSession.pomodoroSettings

\* JavaScript a % b === 0 for a >= 0: NaN (never 0) when b is 0, and the
\* remainder of the magnitudes otherwise.
JsRemIsZero(a, b) ==
  IF b = 0 THEN FALSE
  ELSE (a % (IF b < 0 THEN -b ELSE b)) = 0

\* getNextPhase deciding on the pomodoros completed before this one.
getNextPhase_offByOne(currentPhase, completedPomodoros, s) ==
  IF currentPhase = "work"
  THEN IF JsRemIsZero(completedPomodoros, s.longBreakInterval)
       THEN "longBreak" ELSE "shortBreak"
  ELSE "work"

getNextPhase(currentPhase, completedPomodoros, s) ==
  IF currentPhase = "work"
  THEN IF JsRemIsZero(completedPomodoros + 1, s.longBreakInterval)
       THEN "longBreak" ELSE "shortBreak"
  ELSE "work"

getPhaseDuration(phase, s) ==
  CASE phase = "work" -> s.workDuration * 60
    [] phase = "shortBreak" -> s.shortBreakDuration * 60
    [] phase = "longBreak" -> s.longBreakDuration * 60
    [] OTHER -> 0

\* useState initial value, and the value resetTimer sets.
InitialState(s) ==
  [phase |-> "idle", timeRemaining |-> s.workDuration * 60,
   isRunning |-> FALSE, completedPomodoros |-> 0, currentCycle |-> 1]

startTimer(prev, s) ==
  [prev EXCEPT
     !.phase = IF prev.phase = "idle" THEN "work" ELSE prev.phase,
     !.isRunning = TRUE,
     !.timeRemaining = IF prev.phase = "idle"
                       THEN getPhaseDuration("work", s)
                       ELSE prev.timeRemaining]

pauseTimer(prev) == [prev EXCEPT !.isRunning = FALSE]

resetTimer(s) == InitialState(s)

\* skipPhase counting a cycle for every phase it skips.
skipPhase_countsEveryPhase(prev, s) ==
  LET nextPhase == getNextPhase(prev.phase, prev.completedPomodoros, s)
      newCompletedPomodoros ==
        IF prev.phase = "work" THEN prev.completedPomodoros + 1
        ELSE prev.completedPomodoros
  IN [prev EXCEPT
        !.phase = nextPhase,
        !.timeRemaining = getPhaseDuration(nextPhase, s),
        !.completedPomodoros = newCompletedPomodoros,
        !.currentCycle = prev.currentCycle + 1]

skipPhase(prev, s) ==
  LET nextPhase == getNextPhase(prev.phase, prev.completedPomodoros, s)
      newCompletedPomodoros ==
        IF prev.phase = "work" THEN prev.completedPomodoros + 1
        ELSE prev.completedPomodoros
  IN [prev EXCEPT
        !.phase = nextPhase,
        !.timeRemaining = getPhaseDuration(nextPhase, s),
        !.completedPomodoros = newCompletedPomodoros,
        !.currentCycle = IF nextPhase = "work" THEN prev.currentCycle + 1
                         ELSE prev.currentCycle]

\* The interval callback completing a phase only below zero.
tick_restsAtZero(prev, s) ==
  LET newTimeRemaining == prev.timeRemaining - 1
      nextPhase == getNextPhase(prev.phase, prev.completedPomodoros, s)
      newCompletedPomodoros ==
        IF prev.phase = "work" THEN prev.completedPomodoros + 1
        ELSE prev.completedPomodoros
  IN IF newTimeRemaining < 0
     THEN [phase |-> nextPhase,
           timeRemaining |-> getPhaseDuration(nextPhase, s),
           isRunning |-> TRUE,
           completedPomodoros |-> newCompletedPomodoros,
           currentCycle |-> IF nextPhase = "work" THEN prev.currentCycle + 1
                            ELSE prev.currentCycle]
     ELSE [prev EXCEPT !.timeRemaining = newTimeRemaining]

\* The updater run by the one-second interval callback.
tick(prev, s) ==
  LET newTimeRemaining == prev.timeRemaining - 1
      nextPhase == getNextPhase(prev.phase, prev.completedPomodoros, s)
      newCompletedPomodoros ==
        IF prev.phase = "work" THEN prev.completedPomodoros + 1
        ELSE prev.completedPomodoros
  IN IF newTimeRemaining <= 0
     THEN [phase |-> nextPhase,
           timeRemaining |-> getPhaseDuration(nextPhase, s),
           isRunning |-> TRUE,
           completedPomodoros |-> newCompletedPomodoros,
           currentCycle |-> IF nextPhase = "work" THEN prev.currentCycle + 1
                            ELSE prev.currentCycle]
     ELSE [prev EXCEPT !.timeRemaining = newTimeRemaining]

(***************************************************************************)
(* src/components/UnifiedProgress (in src/components/VideoPlayer.tsx) and  *)
(* src/components/SessionView.tsx                                          *)
(***************************************************************************)
\* The isWindowFocused prop of UnifiedProgress.
focusSignal(windowFocused, videoPlaying) == windowFocused /\ videoPlaying

\* The effect pausing the timer on focus loss instead of resetting it.
resetOnFocusLoss_pauses(st, signal, s) ==
  IF ~signal /\ st.isRunning THEN pauseTimer(st) ELSE st

\* useEffect of UnifiedProgress: reset the timer when focus is lost.
resetOnFocusLoss(st, signal, s) ==
  IF ~signal /\ st.isRunning THEN resetTimer(s) ELSE st

\* The operation that last wrote the state once that effect has run.
opAfterFocusEffect(st, signal) ==
  IF ~signal /\ st.isRunning THEN "resetOnFocusLoss" ELSE lastOp

\* Start / Pause button: onClick = isRunning ? pauseTimer : startTimer,
\* disabled while the focus signal is false.
StartTimer ==
  /\ focusSignal(isWindowFocused, isVideoPlaying)
  /\ ~state.isRunning
  /\ state' = startTimer(state, settings)
  /\ lastOp' = "startTimer"
  /\ UNCHANGED <<currentSession, isWindowFocused, isVideoPlaying, localStorage,
               savedSessions>>
  /\ UNCHANGED <<now, hookVars, shareVars, urlVars, inputVars, renderVars>>

PauseTimer ==
  /\ focusSignal(isWindowFocused, isVideoPlaying)
  /\ state.isRunning
  /\ state' = pauseTimer(state)
  /\ lastOp' = "pauseTimer"
  /\ UNCHANGED <<currentSession, isWindowFocused, isVideoPlaying, localStorage,
               savedSessions>>
  /\ UNCHANGED <<now, hookVars, shareVars, urlVars, inputVars, renderVars>>

\* Reset button.
ResetTimer ==
  /\ state' = resetTimer(settings)
  /\ lastOp' = "resetTimer"
  /\ UNCHANGED <<currentSession, isWindowFocused, isVideoPlaying, localStorage,
               savedSessions>>
  /\ UNCHANGED <<now, hookVars, shareVars, urlVars, inputVars, renderVars>>

\* Skip button, disabled while the timer is not running.
SkipPhase ==
  /\ state.isRunning
  /\ state.phase = "work" => state.completedPomodoros < MaxPomodoros
  /\ state' = skipPhase(state, settings)
  /\ lastOp' = "skipPhase"
  /\ UNCHANGED <<currentSession, isWindowFocused, isVideoPlaying, localStorage,
               savedSessions>>
  /\ UNCHANGED <<now, hookVars, shareVars, urlVars, inputVars, renderVars>>

\* The interval callback running although the timer was paused, as it would
\* if the interval outlived the pause.
Tick_afterPause ==
  /\ state.timeRemaining > 0
  /\ state.phase = "work" => state.completedPomodoros < MaxPomodoros
  /\ state' = tick(state, settings)
  /\ lastOp' = IF state.timeRemaining - 1 <= 0 THEN "phaseComplete" ELSE "tick"
  /\ UNCHANGED <<currentSession, isWindowFocused, isVideoPlaying, localStorage,
               savedSessions>>
  /\ UNCHANGED <<now, hookVars, shareVars, urlVars, inputVars, renderVars>>

\* The interval callback of the timer tick effect; the interval exists
\* only while isRunning && timeRemaining > 0: the effect that follows the
\* commit of a pause clears it, and clearInterval also cancels a callback
\* that is due but has not begun.
Tick ==
  /\ state.isRunning
  /\ state.timeRemaining > 0
  /\ state.phase = "work" => state.completedPomodoros < MaxPomodoros
  /\ state' = tick(state, settings)
  /\ lastOp' = IF state.timeRemaining - 1 <= 0 THEN "phaseComplete" ELSE "tick"
  /\ UNCHANGED <<currentSession, isWindowFocused, isVideoPlaying, localStorage,
               savedSessions>>
  /\ UNCHANGED <<now, hookVars, shareVars, urlVars, inputVars, renderVars>>

\* useWindowFocus.handleFocus as seen by the session view.
WindowFocus ==
  /\ isWindowFocused' = TRUE
  /\ state' = resetOnFocusLoss(state, focusSignal(TRUE, isVideoPlaying),
                               settings)
  /\ lastOp' = opAfterFocusEffect(state, focusSignal(TRUE, isVideoPlaying))
  /\ UNCHANGED <<currentSession, isVideoPlaying, localStorage,
               savedSessions>>
  /\ UNCHANGED <<now, hookVars, shareVars, urlVars, inputVars, renderVars>>

\* useWindowFocus.handleBlur as seen by the session view.
WindowBlur ==
  /\ isWindowFocused' = FALSE
  /\ state' = resetOnFocusLoss(state, focusSignal(FALSE, isVideoPlaying),
                               settings)
  /\ lastOp' = opAfterFocusEffect(state, focusSignal(FALSE, isVideoPlaying))
  /\ UNCHANGED <<currentSession, isVideoPlaying, localStorage,
               savedSessions>>
  /\ UNCHANGED <<now, hookVars, shareVars, urlVars, inputVars, renderVars>>

HandleVideoPlay ==
  /\ isVideoPlaying' = TRUE
  /\ state' = resetOnFocusLoss(state, focusSignal(isWindowFocused, TRUE),
                               settings)
  /\ lastOp' = opAfterFocusEffect(state, focusSignal(isWindowFocused, TRUE))
  /\ UNCHANGED <<currentSession, isWindowFocused, localStorage,
               savedSessions>>
  /\ UNCHANGED <<now, hookVars, shareVars, urlVars, inputVars, renderVars>>

HandleVideoPause ==
  /\ isVideoPlaying' = FALSE
  /\ state' = resetOnFocusLoss(state, focusSignal(isWindowFocused, FALSE),
                               settings)
  /\ lastOp' = opAfterFocusEffect(state, focusSignal(isWindowFocused, FALSE))
  /\ UNCHANGED <<currentSession, isWindowFocused, localStorage,
               savedSessions>>
  /\ UNCHANGED <<now, hookVars, shareVars, urlVars, inputVars, renderVars>>

\* allVideos: the session's videos followed by every playlist's videos.
RECURSIVE flatMapVideos(_)
flatMapVideos(ps) ==
  IF ps = <<>> THEN <<>> ELSE Head(ps).videos \o flatMapVideos(Tail(ps))

allVideos(sess) == sess.videos \o flatMapVideos(sess.playlists)

\* Home.handleSessionUpdate, the onUpdateSession of the SessionView that
\* Home renders: the entry of the list with the id of the updated session
\* is replaced, and no entry is added.
handleSessionUpdate(prev, updatedSession) ==
  [i \in 1..Len(prev) |->
     IF prev[i].id = updatedSession.id THEN updatedSession ELSE prev[i]]

\* updateSession: setCurrentSession(updated); onUpdateSession(updated);
\* saveSession(updated).
UpdateSession(updatedSession) ==
  /\ currentSession' = updatedSession
  /\ savedSessions' = handleSessionUpdate(savedSessions, updatedSession)
  /\ localStorage' = saveSession(updatedSession)

\* The focus-time effect without its isWindowFocused check.
FocusTick_ignoresWindowFocus ==
  /\ isVideoPlaying
  /\ currentSession.focusTime < MaxFocusTime
  /\ UpdateSession([currentSession EXCEPT
                      !.focusTime = currentSession.focusTime + 1,
                      !.totalStudyTime = currentSession.totalStudyTime + 1])
  /\ UNCHANGED <<state, isWindowFocused, isVideoPlaying, lastOp>>
  /\ UNCHANGED <<now, hookVars, shareVars, urlVars, inputVars, renderVars>>

\* The interval callback of the focus-time effect; the interval exists
\* only while the window is focused and the video is playing.
FocusTick ==
  /\ isWindowFocused /\ isVideoPlaying
  /\ currentSession.focusTime < MaxFocusTime
  /\ UpdateSession([currentSession EXCEPT
                      !.focusTime = currentSession.focusTime + 1,
                      !.totalStudyTime = currentSession.totalStudyTime + 1])
  /\ UNCHANGED <<state, isWindowFocused, isVideoPlaying, lastOp>>
  /\ UNCHANGED <<now, hookVars, shareVars, urlVars, inputVars, renderVars>>

\* handleVideoEnd advancing past the last video.
HandleVideoEnd_pastTheEnd ==
  /\ UpdateSession([currentSession EXCEPT
                      !.currentVideoIndex = currentSession.currentVideoIndex + 1])
  /\ UNCHANGED <<state, isWindowFocused, isVideoPlaying, lastOp>>
  /\ UNCHANGED <<now, hookVars, shareVars, urlVars, inputVars, renderVars>>

\* handleVideoEnd: the next video, unless the last one has ended.
HandleVideoEnd ==
  /\ IF currentSession.currentVideoIndex < Len(allVideos(currentSession)) - 1
     THEN UpdateSession([currentSession EXCEPT
                           !.currentVideoIndex = currentSession.currentVideoIndex + 1])
     ELSE UNCHANGED <<currentSession, localStorage,
               savedSessions>>
  /\ UNCHANGED <<state, isWindowFocused, isVideoPlaying, lastOp>>
  /\ UNCHANGED <<now, hookVars, shareVars, urlVars, inputVars, renderVars>>

handleVideoChange(index) ==
  UpdateSession([currentSession EXCEPT !.currentVideoIndex = index])

Max(a, b) == IF a >= b THEN a ELSE b
Min(a, b) == IF a <= b THEN a ELSE b

\* Previous button of the header, disabled at the first video.
PreviousVideo ==
  /\ currentSession.currentVideoIndex # 0
  /\ handleVideoChange(Max(0, currentSession.currentVideoIndex - 1))
  /\ UNCHANGED <<state, isWindowFocused, isVideoPlaying, lastOp>>
  /\ UNCHANGED <<now, hookVars, shareVars, urlVars, inputVars, renderVars>>

\* Next button of the header, disabled at the last video.
NextVideo ==
  /\ currentSession.currentVideoIndex # Len(allVideos(currentSession)) - 1
  /\ handleVideoChange(Min(Len(allVideos(currentSession)) - 1,
                           currentSession.currentVideoIndex + 1))
  /\ UNCHANGED <<state, isWindowFocused, isVideoPlaying, lastOp>>
  /\ UNCHANGED <<now, hookVars, shareVars, urlVars, inputVars, renderVars>>

\* A click on an entry of the video queue.
QueueSelect ==
  /\ \E index \in 0..(Len(allVideos(currentSession)) - 1) :
       handleVideoChange(index)
  /\ UNCHANGED <<state, isWindowFocused, isVideoPlaying, lastOp>>
  /\ UNCHANGED <<now, hookVars, shareVars, urlVars, inputVars, renderVars>>

\* The index (1-based) of the playlist holding the playlistVideoIndex-th
\* (0-based) playlist video, as found by the loop of handleVideoTitleUpdate.
RECURSIVE countBefore(_, _)
countBefore(ps, k) ==
  IF k <= 1 THEN 0 ELSE countBefore(ps, k - 1) + Len(ps[k - 1].videos)

playlistOf(ps, playlistVideoIndex) ==
  CHOOSE k \in 1..Len(ps) :
    /\ countBefore(ps, k) + Len(ps[k].videos) > playlistVideoIndex
    /\ \A j \in 1..(k - 1) :
         countBefore(ps, j) + Len(ps[j].videos) <= playlistVideoIndex

\* handleVideoTitleUpdate: the session with the title of the videoIndex-th
\* (0-based) entry of allVideos replaced, in videos or in its playlist.
withVideoTitle(sess, title, videoIndex) ==
  IF videoIndex < Len(sess.videos)
  THEN [sess EXCEPT !.videos[videoIndex + 1].title = title]
  ELSE LET playlistVideoIndex == videoIndex - Len(sess.videos)
           k == playlistOf(sess.playlists, playlistVideoIndex)
           videoIndexInPlaylist ==
             playlistVideoIndex - countBefore(sess.playlists, k)
       IN [sess EXCEPT
             !.playlists[k].videos[videoIndexInPlaylist + 1].title = title]

\* The title the YouTube player reports for a video.
playerTitle(video) == "Title of " \o video.id

\* VideoPlayer.onReady -> onTitleUpdate(videoData.title, currentIndex)
HandleVideoTitleUpdate ==
  /\ LET videoIndex == currentSession.currentVideoIndex
         all == allVideos(currentSession)
     IN IF videoIndex + 1 \in 1..Len(all)
        THEN UpdateSession(withVideoTitle(currentSession,
                                          playerTitle(all[videoIndex + 1]),
                                          videoIndex))
        ELSE UNCHANGED <<currentSession, localStorage,
               savedSessions>>
  /\ UNCHANGED <<state, isWindowFocused, isVideoPlaying, lastOp>>
  /\ UNCHANGED <<now, hookVars, shareVars, urlVars, inputVars, renderVars>>

\* parseInt(e.target.value) || fallback, for the texts typed in the model.
NumberOf == [t \in {"0", "1", "2", "3"} |->
               CASE t = "0" -> 0 [] t = "1" -> 1 [] t = "2" -> 2 [] t = "3" -> 3]

parseIntOr(text, fallback) ==
  IF text \notin DOMAIN NumberOf THEN fallback      \* NaN || fallback
  ELSE IF NumberOf[text] = 0 THEN fallback          \* 0 || fallback
  ELSE NumberOf[text]

\* The texts typed into the duration inputs and into the interval input.
DurationTexts == {"1"}
IntervalTexts == {"2", ""}

\* The four inputs of the settings modal.
changedSettings(s, field, text) ==
  CASE field = "workDuration" ->
         [s EXCEPT !.workDuration = parseIntOr(text, 25)]
    [] field = "shortBreakDuration" ->
         [s EXCEPT !.shortBreakDuration = parseIntOr(text, 5)]
    [] field = "longBreakDuration" ->
         [s EXCEPT !.longBreakDuration = parseIntOr(text, 15)]
    [] field = "longBreakInterval" ->
         [s EXCEPT !.longBreakInterval = parseIntOr(text, 4)]

\* onSettingsChange -> handlePomodoroSettingsChange -> updateSession
HandlePomodoroSettingsChange ==
  /\ \E field \in {"workDuration", "shortBreakDuration",
                   "longBreakDuration", "longBreakInterval"} :
       \E text \in (IF field = "longBreakInterval"
                    THEN IntervalTexts ELSE DurationTexts) :
         /\ UpdateSession([currentSession EXCEPT
              !.pomodoroSettings = changedSettings(settings, field, text)])
         /\ state' = resetOnFocusLoss(state,
                       focusSignal(isWindowFocused, isVideoPlaying),
                       changedSettings(settings, field, text))
         /\ lastOp' = opAfterFocusEffect(state,
                        focusSignal(isWindowFocused, isVideoPlaying))
  /\ UNCHANGED <<isWindowFocused, isVideoPlaying>>
  /\ UNCHANGED <<now, hookVars, shareVars, urlVars, inputVars, renderVars>>

(***************************************************************************)
(* The session view: a session opened from the saved list or just created. *)
(***************************************************************************)
Video(id) == [id |-> id, url |-> "https://youtu.be/" \o id,
              title |-> Absent, thumbnail |-> Absent]

Playlist(id, videos) ==
  [id |-> id, url |-> "https://youtube.com/playlist?list=" \o id,
   title |-> "Loading playlist...", videos |-> videos]

\* createNewSession, with the id and the settings given.
StudySession(id, name, videos, playlists, pomodoroSettings) ==
  [id |-> id, name |-> name, videos |-> videos, playlists |-> playlists,
   currentVideoIndex |-> 0, focusTime |-> 0,
   pomodoroSettings |-> pomodoroSettings,
   totalStudyTime |-> 0, completedPomodoros |-> 0]

ShortSettings ==
  [workDuration |-> 2, shortBreakDuration |-> 1,
   longBreakDuration |-> 1, longBreakInterval |-> 2]

OtherSession ==
  StudySession("session_0", "Algebra", <<Video("a0")>>, <<>>,
               DEFAULT_POMODORO_SETTINGS)

ViewedSession ==
  StudySession("session_1", "Calculus", <<Video("v1")>>,
               <<Playlist("PL1", <<Video("p1")>>)>>, ShortSettings)

\* Every callback runs in the render that follows the update before it:
\* the closures are not followed.
RenderAtRest == closureSession = NullSession

\* No URLs pasted and nothing parsed.
InputAtRest ==
  /\ apiKey = Undef
  /\ pastedUrls = <<>>
  /\ parsed = [videos |-> <<>>, playlists |-> <<>>, errors |-> <<>>,
               done |-> FALSE]
  /\ apiCalls = 0

\* The clock and the focus hook, where a specification leaves them aside.
HookAtRest ==
  /\ now = 0
  /\ focusStartTime = 0
  /\ totalFocusTime = 0
  /\ visibilityListeners = {0}
  /\ docHasFocus = TRUE
  /\ docHidden = FALSE
  /\ focusedTime = 0
  /\ countedSince = 0

\* A Map without entries.
EmptyMap == [id \in {} |-> NullSession]

\* The sharing routes before any request, where a specification leaves
\* them aside.
ShareAtRest ==
  /\ serverNow = 0
  /\ serverSessions = EmptyMap
  /\ http = [request |-> [method |-> "none"], response |-> [status |-> 0]]
  /\ issued = {}
  /\ sharedPage = [sessionId |-> Absent, session |-> NullSession,
                   error |-> Absent, loading |-> TRUE]

UrlAtRest ==
  /\ route = "route-optimized.ts"
  /\ memory = EmptyMap
  /\ posted = [name |-> Absent]
  /\ shareLink = [sessionId |-> Absent]
  /\ fetched = [status |-> 0, fromData |-> FALSE]

\* Home has just created the viewed session: a new session is not saved
\* before its first update, so neither local storage nor the list of Home
\* holds it.
Init ==
  /\ RenderAtRest
  /\ InputAtRest
  /\ currentSession = ViewedSession
  /\ localStorage = <<OtherSession>>
  /\ savedSessions = getSavedSessions
  /\ state = InitialState(settings)
  /\ isWindowFocused = TRUE
  /\ isVideoPlaying = FALSE
  /\ lastOp = "mount"
  /\ HookAtRest
  /\ ShareAtRest
  /\ UrlAtRest

Next ==
  \/ StartTimer
  \/ PauseTimer
  \/ ResetTimer
  \/ SkipPhase
  \/ Tick
  \/ WindowFocus
  \/ WindowBlur
  \/ HandleVideoPlay
  \/ HandleVideoPause
  \/ FocusTick
  \/ HandleVideoEnd
  \/ PreviousVideo
  \/ NextVideo
  \/ QueueSelect
  \/ HandleVideoTitleUpdate
  \/ HandlePomodoroSettingsChange

Spec == Init /\ [][Next]_vars

(***************************************************************************)
(* The Pomodoro clock alone: UnifiedProgress over a session whose settings *)
(* stay fixed, driven by its buttons, its one-second interval and the      *)
(* focus signal.                                                           *)
(***************************************************************************)
\* Settings a saved session can carry: the defaults of createNewSession and
\* values typed into the settings modal (a negative number is accepted by
\* parseInt(...) || fallback).
PomodoroSettingsSet ==
  { DEFAULT_POMODORO_SETTINGS,
    [workDuration |-> 2, shortBreakDuration |-> 1,
     longBreakDuration |-> 3, longBreakInterval |-> 2],
    [workDuration |-> 1, shortBreakDuration |-> 2,
     longBreakDuration |-> 1, longBreakInterval |-> 3],
    [workDuration |-> 1, shortBreakDuration |-> -1,
     longBreakDuration |-> 1, longBreakInterval |-> 2] }

InitPomodoro ==
  /\ RenderAtRest
  /\ InputAtRest
  /\ \E s \in PomodoroSettingsSet :
       currentSession = StudySession("session_1", "Calculus",
                                     <<Video("v1")>>, <<>>, s)
  /\ localStorage = <<currentSession>>
  /\ savedSessions = getSavedSessions
  /\ state = InitialState(settings)
  /\ isWindowFocused = TRUE
  /\ isVideoPlaying = FALSE
  /\ lastOp = "mount"
  /\ HookAtRest
  /\ ShareAtRest
  /\ UrlAtRest

NextPomodoro ==
  \/ StartTimer
  \/ PauseTimer
  \/ ResetTimer
  \/ SkipPhase
  \/ Tick
  \/ WindowFocus
  \/ WindowBlur
  \/ HandleVideoPlay
  \/ HandleVideoPause

SpecPomodoro == InitPomodoro /\ [][NextPomodoro]_vars

\* The browser runs the callback of an interval that stays scheduled.
SpecPomodoroLive == SpecPomodoro /\ WF_vars(Tick)

Breaks == {"shortBreak", "longBreak"}

\* A phase ends by the countdown reaching zero or by skipPhase.
PhaseEnds == SkipPhase \/ (Tick /\ state.timeRemaining - 1 <= 0)

\* C1: when a work phase ends, by the countdown or by skipPhase, the next
\* phase is longBreak if completedPomodoros + 1 is a multiple of
\* longBreakInterval and shortBreak otherwise; when a break ends the next
\* phase is work; hence, settings being fixed, a break is a long break
\* exactly when the number of completed work phases is a multiple of
\* longBreakInterval.
C1_CycleRule ==
  /\ [][PhaseEnds =>
          IF state.phase = "work"
          THEN /\ state'.completedPomodoros = state.completedPomodoros + 1
               /\ state'.phase =
                    IF (state.completedPomodoros + 1)
                         % settings.longBreakInterval = 0
                    THEN "longBreak" ELSE "shortBreak"
          ELSE /\ state.phase \in Breaks
               /\ state'.phase = "work"]_vars
  /\ [](state.phase \in Breaks =>
          /\ state.completedPomodoros >= 1
          /\ (state.phase = "longBreak") <=>
               (state.completedPomodoros % settings.longBreakInterval = 0))

\* A long break entered after the longBreakInterval-th work phase, the
\* earlier work phases having been followed by short breaks.
C1_Witness ==
  /\ lastOp \in {"phaseComplete", "skipPhase"}
  /\ state.phase = "longBreak"
  /\ settings.longBreakInterval > 1
  /\ state.completedPomodoros = settings.longBreakInterval

PositiveDurations ==
  /\ settings.workDuration > 0
  /\ settings.shortBreakDuration > 0
  /\ settings.longBreakDuration > 0

\* The full duration of a phase: its minutes times 60.
FullDuration(phase) ==
  60 * (CASE phase = "work" -> settings.workDuration
          [] phase = "shortBreak" -> settings.shortBreakDuration
          [] phase = "longBreak" -> settings.longBreakDuration)

\* The phase that follows phase p entered with c completed pomodoros.
Following(p, c) ==
  IF p = "work"
  THEN IF (c + 1) % settings.longBreakInterval = 0
       THEN "longBreak" ELSE "shortBreak"
  ELSE "work"

\* C2: with positive durations, each one-second tick of a running phase
\* takes one second off timeRemaining, and the tick that finds
\* timeRemaining = 1 completes the phase: the timer enters the next phase
\* with that phase's full duration and keeps running; so a phase with n
\* seconds left completes after exactly n ticks, and under fair ticking a
\* running phase is followed by the next phase unless the timer is stopped.
C2_AutoAdvance ==
  /\ [][(Tick /\ PositiveDurations) =>
          IF state.timeRemaining > 1
          THEN state' = [state EXCEPT !.timeRemaining = state.timeRemaining - 1]
          ELSE /\ state.timeRemaining = 1
               /\ state'.phase = Following(state.phase, state.completedPomodoros)
               /\ state'.timeRemaining = FullDuration(state'.phase)
               /\ state'.isRunning]_vars
  /\ [](PositiveDurations /\ state.isRunning =>
          state.timeRemaining \in 1..FullDuration(state.phase))
  /\ \A p \in {"work", "shortBreak", "longBreak"} :
       \A c \in 0..MaxPomodoros :
         (/\ PositiveDurations
          /\ state.isRunning /\ state.phase = p /\ state.completedPomodoros = c
          /\ (p = "work" => c < MaxPomodoros))
           ~> (\/ ~state.isRunning
               \/ /\ state.phase = Following(p, c)
                  /\ state.completedPomodoros = IF p = "work" THEN c + 1 ELSE c)

\* A long break entered by the countdown of a work phase: it has its full
\* duration left and the timer is still running.
C2_Witness ==
  /\ lastOp = "phaseComplete"
  /\ PositiveDurations
  /\ state.isRunning
  /\ state.phase = "longBreak"
  /\ state.timeRemaining = FullDuration("longBreak")
  /\ settings.longBreakDuration # settings.workDuration

FocusChanges ==
  \/ isWindowFocused' # isWindowFocused
  \/ isVideoPlaying' # isVideoPlaying

FocusTimeUnchanged ==
  /\ currentSession'.focusTime = currentSession.focusTime
  /\ currentSession'.totalStudyTime = currentSession.totalStudyTime

\* C5 as stated: a change of the window-focus state leaves the Pomodoro
\* state unchanged, and a Pomodoro transition leaves the session's focus
\* time unchanged.
C5_Independent ==
  [][/\ FocusChanges => state' = state
     /\ state' # state => FocusTimeUnchanged]_vars

\* C5 amended: a change of the focus state leaves the Pomodoro state
\* unchanged, except that when the focus signal (window focused and video
\* playing) becomes false while the timer is running the timer is reset to
\* idle with isRunning false, timeRemaining = workDuration * 60,
\* completedPomodoros 0 and currentCycle 1; a Pomodoro transition leaves
\* the session's focus time unchanged.
C5_IndependentButReset ==
  [][/\ FocusChanges =>
          IF state.isRunning /\ ~(isWindowFocused' /\ isVideoPlaying')
          THEN state' = [phase |-> "idle",
                         timeRemaining |-> settings.workDuration * 60,
                         isRunning |-> FALSE,
                         completedPomodoros |-> 0,
                         currentCycle |-> 1]
          ELSE state' = state
     /\ state' # state => FocusTimeUnchanged]_vars

\* The window lost focus during the second work phase, with focus time on
\* the session: the timer is back to idle and the focus time is kept.
C5_Witness ==
  /\ lastOp = "resetOnFocusLoss"
  /\ ~isWindowFocused
  /\ state.phase = "idle"
  /\ currentSession.focusTime >= 1

SavedEntries(sessions, id) == {i \in 1..Len(sessions) : sessions[i].id = id}

\* A step of updateSession: it writes the view's session or the saved list
\* (an update that changes neither leaves both as they were).
SessionUpdate ==
  \/ currentSession' # currentSession
  \/ localStorage' # localStorage

\* C6: after every session-view update (focus-time tick, video change,
\* title update, settings change) the saved list holds exactly one entry
\* with the session's id and getSessionById returns a session equal to the
\* view's session; the entry with the same id is replaced, no duplicate is
\* appended and the other entries are left as they were.
C6_AutoSave ==
  /\ [][SessionUpdate =>
          /\ Cardinality(SavedEntries(localStorage', currentSession'.id)) = 1
          /\ getSessionById(currentSession.id)' = currentSession'
          /\ Len(localStorage') =
               IF SavedEntries(localStorage, currentSession.id) = {}
               THEN Len(localStorage) + 1 ELSE Len(localStorage)
          /\ \A i \in 1..Len(localStorage) :
               localStorage[i].id # currentSession.id =>
                 localStorage'[i] = localStorage[i]]_vars
  /\ [](/\ Cardinality(SavedEntries(localStorage, currentSession.id)) <= 1
        /\ SavedEntries(localStorage, currentSession.id) # {} =>
             getSessionById(currentSession.id) = currentSession)

\* The session after a focus tick, a video change, a title update and a
\* settings change, saved once.
C6_Witness ==
  /\ currentSession.focusTime >= 1
  /\ currentSession.currentVideoIndex = 1
  /\ currentSession.videos[1].title # Absent
  /\ currentSession.pomodoroSettings.longBreakInterval = 4
  /\ Cardinality(SavedEntries(localStorage, currentSession.id)) = 1
  /\ Len(localStorage) = 2

(***************************************************************************)
(* src/hooks/useWindowFocus.ts: the hook alone, with the clock and the     *)
(* browser events it listens to.                                           *)
(***************************************************************************)
\* getCurrentFocusTime, the totalFocusTime the hook returns.
getCurrentFocusTime ==
  IF ~isWindowFocused THEN totalFocusTime
  ELSE totalFocusTime + (now - focusStartTime)

RECURSIVE SumOver(_, _)
SumOver(S, t) ==
  IF S = {} THEN 0
  ELSE LET k == CHOOSE x \in S : TRUE
       IN (t - k) + SumOver(S \ {k}, t)

\* The listener effect runs again when handleBlur changed, that is when
\* focusStartTime did: it sets isWindowFocused to document.hasFocus(),
\* replaces the focus and blur listeners and adds one more visibilitychange
\* listener (its cleanup removes none of them).
listenerEffect(newStart, focused, hasFocus) ==
  /\ isWindowFocused' = IF newStart # focusStartTime THEN hasFocus ELSE focused
  /\ visibilityListeners' =
       IF newStart # focusStartTime
       THEN visibilityListeners \cup {newStart} ELSE visibilityListeners

\* The window gains focus: the focus listener runs handleFocus.
BrowserFocus ==
  /\ ~docHasFocus /\ ~docHidden
  /\ docHasFocus' = TRUE
  /\ focusStartTime' = now
  /\ listenerEffect(now, TRUE, TRUE)
  /\ UNCHANGED <<totalFocusTime, docHidden, focusedTime, countedSince, now>>
  /\ UNCHANGED <<viewVars, shareVars, urlVars, inputVars, renderVars>>

\* The window loses focus: the blur listener runs the current handleBlur.
BrowserBlur ==
  /\ docHasFocus
  /\ totalFocusTime < MaxTotalFocusTime
  /\ docHasFocus' = FALSE
  /\ isWindowFocused' = FALSE
  /\ totalFocusTime' = totalFocusTime + (now - focusStartTime)
  /\ UNCHANGED <<focusStartTime, visibilityListeners, docHidden,
                 focusedTime, countedSince, now>>
  /\ UNCHANGED <<viewVars, shareVars, urlVars, inputVars, renderVars>>

\* The page is hidden after its window lost focus: every visibilitychange
\* listener runs the handleBlur it closed over.
VisibilityHidden ==
  /\ ~docHidden /\ ~docHasFocus
  /\ totalFocusTime < MaxTotalFocusTime
  /\ docHidden' = TRUE
  /\ isWindowFocused' = FALSE
  /\ totalFocusTime' = totalFocusTime + SumOver(visibilityListeners, now)
  /\ UNCHANGED <<focusStartTime, visibilityListeners, docHasFocus,
                 focusedTime, countedSince, now>>
  /\ UNCHANGED <<viewVars, shareVars, urlVars, inputVars, renderVars>>

\* The page is shown again: every visibilitychange listener runs handleFocus.
VisibilityVisible ==
  /\ docHidden
  /\ docHidden' = FALSE
  /\ focusStartTime' = now
  /\ listenerEffect(now, TRUE, docHasFocus)
  /\ UNCHANGED <<totalFocusTime, docHasFocus, focusedTime, countedSince, now>>
  /\ UNCHANGED <<viewVars, shareVars, urlVars, inputVars, renderVars>>

ResetFocusTime ==
  /\ totalFocusTime' = 0
  /\ focusStartTime' = now
  /\ listenerEffect(now, isWindowFocused, docHasFocus)
  /\ focusedTime' = 0
  /\ countedSince' = now
  /\ UNCHANGED <<docHasFocus, docHidden, now>>
  /\ UNCHANGED <<viewVars, shareVars, urlVars, inputVars, renderVars>>

\* Time passes; it is focused time while the window has focus.
AdvanceClock ==
  /\ now < MaxNow
  /\ now' = now + 1
  /\ focusedTime' = IF docHasFocus THEN focusedTime + 1 ELSE focusedTime
  /\ UNCHANGED <<focusStartTime, totalFocusTime, visibilityListeners,
                 docHasFocus, docHidden, countedSince, isWindowFocused>>
  /\ UNCHANGED <<viewVars, shareVars, urlVars, inputVars, renderVars>>

\* Mount: useState(true), useState(Date.now()), useState(0), then the
\* effect sets isWindowFocused to document.hasFocus() and adds the listeners.
InitFocus ==
  /\ RenderAtRest
  /\ InputAtRest
  /\ now = 0
  /\ docHasFocus \in BOOLEAN
  /\ docHidden = FALSE
  /\ isWindowFocused = docHasFocus
  /\ focusStartTime = now
  /\ totalFocusTime = 0
  /\ visibilityListeners = {focusStartTime}
  /\ focusedTime = 0
  /\ countedSince = now
  /\ currentSession = ViewedSession
  /\ localStorage = <<currentSession>>
  /\ savedSessions = getSavedSessions
  /\ state = InitialState(settings)
  /\ isVideoPlaying = FALSE
  /\ lastOp = "mount"
  /\ ShareAtRest
  /\ UrlAtRest

NextFocus ==
  \/ BrowserFocus
  \/ BrowserBlur
  \/ VisibilityHidden
  \/ VisibilityVisible
  \/ ResetFocusTime
  \/ AdvanceClock

SpecFocus == InitFocus /\ [][NextFocus]_vars

\* C4: after any sequence of focus, blur and visibilitychange events the
\* totalFocusTime of useWindowFocus equals the time during which the window
\* really had focus since mount or the last resetFocusTime, each focused
\* interval being counted once, and never exceeds the time elapsed.
C4_FocusAccumulation ==
  /\ getCurrentFocusTime = focusedTime
  /\ getCurrentFocusTime <= now - countedSince

(***************************************************************************)
(* src/lib/youtube.ts: parseYouTubeUrls, over the texts of the URLs.       *)
(***************************************************************************)
\* pat occurs in text at position i.
matchesAt(text, i, pat) ==
  /\ i >= 1
  /\ i + Len(pat) - 1 <= Len(text)
  /\ SubSeq(text, i, i + Len(pat) - 1) = pat

\* The position of the first occurrence of pat in text, 0 if there is none.
indexOf(text, pat) ==
  LET places == {i \in 1..Len(text) : matchesAt(text, i, pat)}
  IN IF places = {} THEN 0
     ELSE CHOOSE i \in places : \A j \in places : i <= j

startsWith(text, pat) == matchesAt(text, 1, pat)

\* The capture group ([^&\n?#]+) read from position from: the longest run
\* of characters other than & ? # and the line feed ("" if it is empty).
capture(text, from) ==
  LET stops == {i \in from..Len(text) :
                  SubSeq(text, i, i) \in {"&", "?", "#", "\n"}}
      end == IF stops = {} THEN Len(text)
             ELSE (CHOOSE i \in stops : \A j \in stops : i <= j) - 1
  IN IF from > Len(text) THEN "" ELSE SubSeq(text, from, end)

\* The leftmost match of one of the markers that is followed by a non-empty
\* capture, as the value of the capture; Absent for null.
captureAfter(text, markers) ==
  LET matches == {i \in 1..Len(text) :
                    \E m \in markers :
                      /\ matchesAt(text, i, m)
                      /\ capture(text, i + Len(m)) # ""}
      first == CHOOSE i \in matches : \A j \in matches : i <= j
      marker == CHOOSE m \in markers : matchesAt(text, first, m)
  IN IF matches = {} THEN Absent
     ELSE capture(text, first + Len(marker))

\* extractVideoId: the first pattern, then watch?...v= with the greedy .*
\* taking the last v= that has a capture behind it.
extractVideoId(url) ==
  LET direct == captureAfter(url, {"youtube.com/watch?v=", "youtu.be/",
                                   "youtube.com/embed/"})
      watch == indexOf(url, "youtube.com/watch?")
      after == watch + Len("youtube.com/watch?")
      vs == {i \in after..Len(url) :
               matchesAt(url, i, "v=") /\ capture(url, i + 2) # ""}
  IN IF direct # Absent THEN direct
     ELSE IF watch = 0 \/ vs = {} THEN Absent
     ELSE capture(url, (CHOOSE i \in vs : \A j \in vs : i >= j) + 2)

extractPlaylistId(url) == captureAfter(url, {"&list=", "?list="})

isValidYouTubeUrl(url) ==
  LET noScheme == IF startsWith(url, "https://") THEN SubSeq(url, 9, Len(url))
                  ELSE IF startsWith(url, "http://") THEN SubSeq(url, 8, Len(url))
                  ELSE url
      noWww == IF startsWith(noScheme, "www.")
               THEN SubSeq(noScheme, 5, Len(noScheme)) ELSE noScheme
  IN startsWith(noWww, "youtube.com/") \/ startsWith(noWww, "youtu.be/")

\* String.prototype.trim for the blanks that the explored texts contain.
trim(text) ==
  LET inked == {i \in 1..Len(text) : SubSeq(text, i, i) # " "}
      first == CHOOSE i \in inked : \A j \in inked : i <= j
      last == CHOOSE i \in inked : \A j \in inked : j <= i
  IN IF inked = {} THEN "" ELSE SubSeq(text, first, last)

\* The placeholder videos of a playlist: title and duration, no thumbnail.
placeholderVideos(playlistId) ==
  [i \in 1..5 |->
     [id |-> playlistId \o "_video_" \o ToString(i),
      url |-> "https://youtube.com/watch?v=" \o playlistId \o "_video_"
                \o ToString(i) \o "&list=" \o playlistId,
      title |-> "Loading playlist video " \o ToString(i) \o "...",
      thumbnail |-> Absent]]

\* The body of the forEach of parseYouTubeUrls for the url at index (0-based),
\* applied to the result so far.
parseOne(acc, url, index) ==
  LET trimmedUrl == trim(url)
  IN IF trimmedUrl = "" THEN acc
     ELSE IF ~isValidYouTubeUrl(trimmedUrl)
     THEN [acc EXCEPT !.errors =
             Append(@, "Invalid YouTube URL at line " \o ToString(index + 1)
                         \o ": " \o trimmedUrl)]
     ELSE IF extractPlaylistId(trimmedUrl) # Absent
     THEN [acc EXCEPT !.playlists =
             Append(@, [id |-> extractPlaylistId(trimmedUrl),
                        url |-> trimmedUrl,
                        title |-> "Loading playlist...",
                        videos |->
                          placeholderVideos(extractPlaylistId(trimmedUrl))])]
     ELSE IF extractVideoId(trimmedUrl) # Absent
     THEN [acc EXCEPT !.videos =
             Append(@, [id |-> extractVideoId(trimmedUrl), url |-> trimmedUrl,
                        title |-> Absent, thumbnail |-> Absent])]
     ELSE [acc EXCEPT !.errors =
             Append(@, "Could not extract video or playlist ID from: "
                         \o trimmedUrl)]

RECURSIVE parseUpTo(_, _)
parseUpTo(urls, n) ==
  IF n = 0 THEN [videos |-> <<>>, playlists |-> <<>>, errors |-> <<>>]
  ELSE parseOne(parseUpTo(urls, n - 1), urls[n], n - 1)

parseYouTubeUrls(urls) == parseUpTo(urls, Len(urls))

\* convertAPIVideoToVideoInfo: a video as the YouTube API describes it.
convertAPIVideoToVideoInfo(id, title) ==
  [id |-> id, url |-> "https://www.youtube.com/watch?v=" \o id,
   title |-> title,
   thumbnail |-> "https://i.ytimg.com/vi/" \o id \o "/mqdefault.jpg"]

\* createNewSession handing out a session with a second of focus time.
createNewSession_withProgress(name, videos, playlists) ==
  [StudySession("session_new", name, videos, playlists,
                DEFAULT_POMODORO_SETTINGS)
     EXCEPT !.focusTime = 1, !.totalStudyTime = 1]

\* createNewSession; the id is generateSessionId() of session.ts, which
\* starts with session_.
createNewSession(name, videos, playlists) ==
  StudySession("session_new", name, videos, playlists,
               DEFAULT_POMODORO_SETTINGS)

(***************************************************************************)
(* src/app/api/sessions/route.ts, the route behind /api/sessions, with the *)
(* share button of SessionView and the page of the recipient.  The server  *)
(* clock counts days: thirtyDays, 30 * 24 * 60 * 60 * 1000 ms, is 30.      *)
(***************************************************************************)
thirtyDays == 30

\* The outcomes of generateSessionId that are explored: eight characters
\* drawn at random, so the same id can be drawn again.
generateSessionId == {"aB3dE5g7", "Zy8xW6v4"}

Origin == "https://focus0.example"

cleanupExpiredSessions(store, t) ==
  [id \in {i \in DOMAIN store : ~(store[i].expiresAt < t)} |-> store[id]]

\* isValidVideo: id, title and thumbnail are present and are strings.
isValidVideo(video) ==
  /\ video.id # Absent
  /\ video.title # Absent
  /\ video.thumbnail # Absent

isValidPlaylist(playlist) ==
  /\ playlist.id # Absent
  /\ playlist.title # Absent
  /\ \A i \in 1..Len(playlist.videos) : isValidVideo(playlist.videos[i])

\* POST of route.ts on the store at time t, sessionId being what
\* generateSessionId returns: the store afterwards and the response.
POST(store, t, body, sessionId) ==
  IF Len(body.videos) = 0 /\ Len(body.playlists) = 0
  THEN [store |-> store,
        response |-> [status |-> 400,
                      error |-> "At least one video or playlist is required"]]
  ELSE IF ~(\A i \in 1..Len(body.videos) : isValidVideo(body.videos[i]))
  THEN [store |-> store,
        response |-> [status |-> 400, error |-> "Invalid video format"]]
  ELSE IF ~(\A i \in 1..Len(body.playlists) : isValidPlaylist(body.playlists[i]))
  THEN [store |-> store,
        response |-> [status |-> 400, error |-> "Invalid playlist format"]]
  ELSE LET cleaned == cleanupExpiredSessions(store, t)
           session == [id |-> sessionId,
                       name |-> IF body.name \in {Absent, ""}
                                THEN "Study Session" ELSE body.name,
                       videos |-> body.videos,
                       playlists |-> body.playlists,
                       createdAt |-> t,
                       expiresAt |-> t + thirtyDays]
       IN [store |-> [id \in DOMAIN cleaned \cup {sessionId} |->
                        IF id = sessionId THEN session ELSE cleaned[id]],
           response |-> [status |-> 200,
                         sessionId |-> sessionId,
                         shareUrl |-> Origin \o "/session/" \o sessionId,
                         expiresAt |-> session.expiresAt]]

\* GET answering from the store as it is, expired sessions included.
GET_withoutCleanup(store, t, sessionId) ==
  IF sessionId \in {Absent, ""}
  THEN [store |-> store,
        response |-> [status |-> 400, error |-> "Session ID is required"]]
  ELSE IF sessionId \notin DOMAIN store
  THEN [store |-> store,
        response |-> [status |-> 404,
                      error |-> "Session not found or expired"]]
  ELSE [store |-> store,
        response |-> [status |-> 200,
                      id |-> store[sessionId].id,
                      name |-> store[sessionId].name,
                      videos |-> JsonVideos(store[sessionId].videos),
                      playlists |-> JsonPlaylists(store[sessionId].playlists),
                      createdAt |-> store[sessionId].createdAt]]

\* GET of route.ts for ?id=sessionId (Absent without the parameter).
GET(store, t, sessionId) ==
  IF sessionId \in {Absent, ""}
  THEN [store |-> store,
        response |-> [status |-> 400, error |-> "Session ID is required"]]
  ELSE LET cleaned == cleanupExpiredSessions(store, t)
       IN IF sessionId \notin DOMAIN cleaned
          THEN [store |-> cleaned,
                response |-> [status |-> 404,
                              error |-> "Session not found or expired"]]
          ELSE [store |-> cleaned,
                response |-> [status |-> 200,
                              id |-> cleaned[sessionId].id,
                              name |-> cleaned[sessionId].name,
                              videos |-> JsonVideos(cleaned[sessionId].videos),
                              playlists |->
                                JsonPlaylists(cleaned[sessionId].playlists),
                              createdAt |-> cleaned[sessionId].createdAt]]

\* shareSession of SessionView: no session built by createNewSession with
\* three arguments has sourceUrls, so the request goes to /api/sessions.
ShareSession ==
  /\ Cardinality(issued) < MaxShares
  /\ \E sessionId \in generateSessionId :
       LET body == [name |-> currentSession.name,
                    videos |-> JsonVideos(currentSession.videos),
                    playlists |-> JsonPlaylists(currentSession.playlists)]
           r == POST(serverSessions, serverNow, body, sessionId)
       IN /\ serverSessions' = r.store
          /\ http' = [request |-> [method |-> "POST", body |-> body],
                      response |-> r.response]
          /\ issued' = IF r.response.status = 200
                       THEN issued \cup {[id |-> sessionId, at |-> serverNow,
                                          shared |-> currentSession]}
                       ELSE issued
  /\ UNCHANGED <<serverNow, sharedPage>>
  /\ UNCHANGED <<viewVars, isWindowFocused, now, hookVars, urlVars, inputVars, renderVars>>

\* A client asks for a share it was given the URL of.
GetSession ==
  /\ \E l \in issued :
       LET r == GET(serverSessions, serverNow, l.id)
       IN /\ serverSessions' = r.store
          /\ http' = [request |-> [method |-> "GET", id |-> l.id],
                      response |-> r.response]
  /\ UNCHANGED <<serverNow, issued, sharedPage>>
  /\ UNCHANGED <<viewVars, isWindowFocused, now, hookVars, urlVars, inputVars, renderVars>>

\* loadSession of the shared session page, for a share URL without sources
\* and data parameters.
OpenShareLink ==
  /\ \E l \in issued :
       LET localSession == getSessionById(l.id)
           r == GET(serverSessions, serverNow, l.id)
           convertedSession ==
             [createNewSession(r.response.name, r.response.videos,
                               r.response.playlists)
                EXCEPT !.id = "shared-" \o l.id]
       IN IF localSession # NullSession
          THEN /\ sharedPage' = [sessionId |-> l.id, session |-> localSession,
                                 error |-> Absent, loading |-> FALSE]
               /\ UNCHANGED <<serverSessions, http>>
          ELSE /\ serverSessions' = r.store
               /\ http' = [request |-> [method |-> "GET", id |-> l.id],
                           response |-> r.response]
               /\ sharedPage' =
                    IF r.response.status = 200
                    THEN [sessionId |-> l.id, session |-> convertedSession,
                          error |-> Absent, loading |-> FALSE]
                    ELSE IF r.response.status = 404
                    THEN [sessionId |-> l.id, session |-> NullSession,
                          error |-> "Session not found or may have expired",
                          loading |-> FALSE]
                    ELSE [sessionId |-> l.id, session |-> NullSession,
                          error |-> "Failed to load shared session",
                          loading |-> FALSE]
  /\ UNCHANGED <<serverNow, issued>>
  /\ UNCHANGED <<viewVars, isWindowFocused, now, hookVars, urlVars, inputVars, renderVars>>

\* Time passes on the server, by a day or by thirty.
AdvanceServerClock ==
  /\ \E d \in {1, thirtyDays} :
       /\ d = 1 => serverNow % thirtyDays < MaxDrift
       /\ d = thirtyDays => serverNow < MaxPeriods * thirtyDays
       /\ serverNow' = serverNow + d
  /\ UNCHANGED <<serverSessions, http, issued, sharedPage>>
  /\ UNCHANGED <<viewVars, isWindowFocused, now, hookVars, urlVars, inputVars, renderVars>>

\* The sessions whose Share button is pressed: built on the main page from
\* pasted URLs, or holding videos with the metadata of the YouTube API (as a
\* session opened from a share link does), with the settings left at their
\* defaults or changed in the settings modal.
SharerSessions ==
  LET pasted(urls) == createNewSession("Calculus",
                                       parseYouTubeUrls(urls).videos,
                                       parseYouTubeUrls(urls).playlists)
      listed == createNewSession("Algebra",
                  <<convertAPIVideoToVideoInfo("a1", "Groups and rings")>>,
                  <<[id |-> "PL9",
                     url |-> "https://www.youtube.com/playlist?list=PL9",
                     title |-> "Linear algebra",
                     videos |-> <<convertAPIVideoToVideoInfo("a2", "Bases")>>]>>)
  IN { pasted(<<"https://youtu.be/v1">>),
       pasted(<<"https://www.youtube.com/watch?v=v2",
                "https://www.youtube.com/playlist?list=PL1">>),
       listed,
       [listed EXCEPT !.pomodoroSettings = ShortSettings] }

InitShare ==
  /\ RenderAtRest
  /\ InputAtRest
  /\ currentSession \in SharerSessions
  /\ localStorage = <<JsonSession(currentSession)>>
  /\ savedSessions = getSavedSessions
  /\ state = InitialState(settings)
  /\ isWindowFocused = TRUE
  /\ isVideoPlaying = FALSE
  /\ lastOp = "mount"
  /\ HookAtRest
  /\ ShareAtRest
  /\ UrlAtRest

NextShare ==
  \/ ShareSession
  \/ GetSession
  \/ OpenShareLink
  \/ AdvanceServerClock

SpecShare == InitShare /\ [][NextShare]_vars

\* What a share carries of a session: its name, videos and playlists.
SameCollection(a, b) ==
  /\ a.name = b.name
  /\ a.videos = JsonVideos(b.videos)
  /\ a.playlists = JsonPlaylists(b.playlists)

\* C7: for a session created by POST /api/sessions at time t, a GET for its
\* id returns the stored session at every time up to t + 30 days and 404 at
\* every later time, and a session whose expiresAt is in the past is never
\* returned.
C7_Expiry ==
  [][GetSession =>
       /\ \A l \in issued :
            l.id = http'.request.id =>
              IF serverNow <= l.at + thirtyDays
              THEN /\ http'.response.status = 200
                   /\ SameCollection(http'.response, l.shared)
                   /\ http'.response.createdAt = l.at
              ELSE http'.response.status = 404
       /\ http'.response.status = 200 =>
            http'.response.createdAt + thirtyDays >= serverNow]_vars

\* C9: the session a recipient obtains by opening a share link has the same
\* name, the same ordered videos and playlists and the same Pomodoro
\* settings as the session that was shared.
C9_SharedSettings ==
  sharedPage.session # NullSession =>
    \E l \in issued :
      /\ l.id = sharedPage.sessionId
      /\ SameCollection(sharedPage.session, l.shared)
      /\ sharedPage.session.pomodoroSettings = l.shared.pomodoroSettings

\* C10: the share request of any session the app can build, one built by
\* parseYouTubeUrls included, passes validation and returns a sessionId and
\* a shareUrl instead of a 400 error.
C10_ShareAnySession ==
  http.request.method = "POST" =>
    /\ http.response.status = 200
    /\ http.response.sessionId \in generateSessionId
    /\ http.response.shareUrl = Origin \o "/session/" \o http.response.sessionId

(***************************************************************************)
(* The routes that embed the session in the share URL:                     *)
(* src/app/api/sessions/route-optimized.ts, route-backup.ts and the route  *)
(* of unnamed/part_004.  A JSON text, a gzip stream and a base64url text   *)
(* are written as records tagged with the encoding, which their decoders   *)
(* take off again.                                                         *)
(***************************************************************************)
Routes == {"route-optimized.ts", "route-backup.ts", "part_004"}

stringify(value) == [json |-> value]
parse(text) == text.json
gzipSync(bytes) == [gzip |-> bytes]
gunzipSync(bytes) == bytes.gzip
toBase64url(bytes) == [base64url |-> bytes]
fromBase64url(text) == text.base64url

\* v.title && v.title.length > 10 && v.title.length < 80 ? v.title : undefined
keptTitle(title) ==
  IF title \notin {Absent, Undef, ""} /\ Len(title) > 10 /\ Len(title) < 80
  THEN title ELSE Undef

\* JSON.stringify and JSON.parse of { i, t }: an undefined t is not written.
minimalEntry(id, title) ==
  [i |-> id, t |-> IF title = Undef THEN Absent ELSE title]

toUltraMinimal(session) ==
  [n |-> IF Len(session.name) > 50 THEN SubSeq(session.name, 1, 50)
         ELSE session.name,
   v |-> [k \in 1..Len(session.videos) |->
            minimalEntry(session.videos[k].id,
                         keptTitle(session.videos[k].title))],
   p |-> [k \in 1..Len(session.playlists) |->
            [i |-> session.playlists[k].id,
             t |-> minimalEntry(session.playlists[k].id,
                                keptTitle(session.playlists[k].title)).t,
             v |-> [j \in 1..Min(50, Len(session.playlists[k].videos)) |->
                      minimalEntry(session.playlists[k].videos[j].id,
                        keptTitle(session.playlists[k].videos[j].title))]]],
   c |-> session.createdAt]

\* v.t || `Video ${v.i}`
orDefault(title, fallback) ==
  IF title \in {Absent, Undef, ""} THEN fallback ELSE title

fromUltraMinimal(minimal) ==
  LET video(v) == [id |-> v.i,
                   url |-> "https://www.youtube.com/watch?v=" \o v.i,
                   title |-> orDefault(v.t, "Video " \o v.i),
                   thumbnail |-> Absent]
  IN [name |-> minimal.n,
      videos |-> [k \in 1..Len(minimal.v) |-> video(minimal.v[k])],
      playlists |-> [k \in 1..Len(minimal.p) |->
         [id |-> minimal.p[k].i,
          url |-> "https://www.youtube.com/playlist?list=" \o minimal.p[k].i,
          title |-> orDefault(minimal.p[k].t, "Playlist " \o minimal.p[k].i),
          videos |-> [j \in 1..Len(minimal.p[k].v) |->
                        video(minimal.p[k].v[j])]]],
      createdAt |-> minimal.c]

\* route-backup.ts: { id, title } of every video and playlist; a title
\* that is undefined is not written by JSON.stringify.
toMinimalSession(session) ==
  LET video(v) == [id |-> v.id,
                   title |-> IF v.title = Undef THEN Absent ELSE v.title]
  IN [name |-> session.name,
      videos |-> [k \in 1..Len(session.videos) |-> video(session.videos[k])],
      playlists |-> [k \in 1..Len(session.playlists) |->
         [id |-> session.playlists[k].id,
          title |-> video(session.playlists[k]).title,
          videos |-> [j \in 1..Len(session.playlists[k].videos) |->
                        video(session.playlists[k].videos[j])]]],
      createdAt |-> session.createdAt]

fromMinimalSession(minimal) ==
  LET video(v) == [id |-> v.id,
                   url |-> "https://www.youtube.com/watch?v=" \o v.id,
                   title |-> v.title,
                   thumbnail |-> Absent]
  IN [name |-> minimal.name,
      videos |-> [k \in 1..Len(minimal.videos) |-> video(minimal.videos[k])],
      playlists |-> [k \in 1..Len(minimal.playlists) |->
         [id |-> minimal.playlists[k].id,
          url |-> "https://www.youtube.com/playlist?list="
                    \o minimal.playlists[k].id,
          title |-> minimal.playlists[k].title,
          videos |-> [j \in 1..Len(minimal.playlists[k].videos) |->
                        video(minimal.playlists[k].videos[j])]]],
      createdAt |-> minimal.createdAt]

\* encodeSessionData of the route r.
encodeSessionData(r, session) ==
  CASE r = "route-optimized.ts" ->
         toBase64url(gzipSync(stringify(toUltraMinimal(session))))
    [] r = "route-backup.ts" ->
         toBase64url(gzipSync(stringify(toMinimalSession(session))))
    [] r = "part_004" ->
         toBase64url(stringify([name |-> session.name,
                                videos |-> JsonVideos(session.videos),
                                playlists |-> JsonPlaylists(session.playlists),
                                createdAt |-> session.createdAt]))

\* decodeSessionData of the route r.
decodeSessionData(r, encodedData) ==
  CASE r = "route-optimized.ts" ->
         fromUltraMinimal(parse(gunzipSync(fromBase64url(encodedData))))
    [] r = "route-backup.ts" ->
         fromMinimalSession(parse(gunzipSync(fromBase64url(encodedData))))
    [] r = "part_004" ->
         parse(fromBase64url(encodedData))

\* isValidVideo and isValidPlaylist of the route r: route-optimized.ts
\* asks for the id only.
validFor(r, body) ==
  IF r = "route-optimized.ts"
  THEN /\ \A k \in 1..Len(body.videos) : body.videos[k].id # Absent
       /\ \A k \in 1..Len(body.playlists) :
            /\ body.playlists[k].id # Absent
            /\ \A j \in 1..Len(body.playlists[k].videos) :
                 body.playlists[k].videos[j].id # Absent
  ELSE /\ \A k \in 1..Len(body.videos) : isValidVideo(body.videos[k])
       /\ \A k \in 1..Len(body.playlists) : isValidPlaylist(body.playlists[k])

\* POST of the route: the session is kept in memory and the share URL gets
\* the data parameter, in route-optimized.ts and route-backup.ts only if
\* the encoded text is shorter than 3000 and 2000 characters.  The length
\* of a gzip stream is not computed here: both outcomes are taken.
UrlPost ==
  /\ \E sessionId \in generateSessionId, fits \in BOOLEAN :
       LET sessionData == [name |-> IF posted.name \in {Absent, ""}
                                    THEN "Study Session" ELSE posted.name,
                           videos |-> posted.videos,
                           playlists |-> posted.playlists,
                           createdAt |-> serverNow]
           session == [id |-> sessionId, name |-> sessionData.name,
                       videos |-> sessionData.videos,
                       playlists |-> sessionData.playlists,
                       createdAt |-> sessionData.createdAt]
       IN /\ route = "part_004" => fits
          /\ IF (Len(posted.videos) = 0 /\ Len(posted.playlists) = 0)
                \/ ~validFor(route, posted)
             THEN UNCHANGED <<memory, shareLink>>
             ELSE /\ memory' = [id \in DOMAIN memory \cup {sessionId} |->
                                  IF id = sessionId THEN session ELSE memory[id]]
                  /\ shareLink' =
                       [sessionId |-> sessionId,
                        data |-> IF fits
                                 THEN <<encodeSessionData(route, sessionData)>>
                                 ELSE << >>,
                        createdAt |-> serverNow]
  /\ UNCHANGED <<route, posted, fetched>>
  /\ UNCHANGED <<viewVars, isWindowFocused, now, hookVars, shareVars, inputVars, renderVars>>

\* Another instance serves the next request: its memory is empty.
ColdStart ==
  /\ memory # EmptyMap
  /\ memory' = EmptyMap
  /\ UNCHANGED <<route, posted, shareLink, fetched>>
  /\ UNCHANGED <<viewVars, isWindowFocused, now, hookVars, shareVars, inputVars, renderVars>>

\* GET of the route with the id and the data parameter of the share URL:
\* memory first, then the data parameter (which route-optimized.ts and
\* route-backup.ts then keep in memory).
UrlGet ==
  /\ shareLink.sessionId # Absent
  /\ LET sessionId == shareLink.sessionId
         hasData == Len(shareLink.data) > 0
         inMemory == sessionId \in DOMAIN memory
         decodedData == decodeSessionData(route, shareLink.data[1])
         session == IF inMemory THEN memory[sessionId]
                    ELSE [id |-> sessionId, name |-> decodedData.name,
                          videos |-> decodedData.videos,
                          playlists |-> decodedData.playlists,
                          createdAt |-> decodedData.createdAt]
     IN IF ~inMemory /\ ~hasData
        THEN /\ fetched' = [status |-> 404, fromData |-> FALSE]
             /\ UNCHANGED memory
        ELSE /\ fetched' = [status |-> 200,
                            fromData |-> ~inMemory,
                            id |-> session.id,
                            name |-> session.name,
                            videos |-> JsonVideos(session.videos),
                            playlists |-> JsonPlaylists(session.playlists),
                            createdAt |-> session.createdAt]
             /\ memory' = IF inMemory \/ route = "part_004" THEN memory
                          ELSE [id \in DOMAIN memory \cup {sessionId} |->
                                  IF id = sessionId THEN session ELSE memory[id]]
  /\ UNCHANGED <<route, posted, shareLink>>
  /\ UNCHANGED <<viewVars, isWindowFocused, now, hookVars, shareVars, inputVars, renderVars>>

\* Titles around the lengths 10 and 80, and a name longer than 50.
Title79 ==
  "Lecture 12: eigenvalues, eigenvectors and the diagonalisation of real matrices,"
Title80 ==
  "Lecture 12: eigenvalues, eigenvectors and the diagonalisation of real matrices,!"
Name51 == "Linear algebra revision for the final examination 1"

PostedTitles == {"Intro", "Algebra 01", "Linear maps", Title79, Title80}

\* The bodies posted: a video with metadata under each of the titles or a
\* video with id and url only, and no playlist or one of two playlists.
PostedBodies ==
  { [name |-> name, videos |-> videos, playlists |-> playlists] :
      name \in {"Calculus", Name51},
      videos \in {<<convertAPIVideoToVideoInfo("a1", title)>> :
                    title \in PostedTitles}
                 \cup {<<Video("v1")>>},
      playlists \in {<<>>,
                     <<[id |-> "PL9",
                        url |-> "https://www.youtube.com/playlist?list=PL9",
                        title |-> "Linear algebra",
                        videos |-> <<convertAPIVideoToVideoInfo("a2", "Bases of a space")>>]>>,
                     <<[id |-> "PL8",
                        url |-> "https://www.youtube.com/playlist?list=PL8",
                        title |-> "Sets",
                        videos |-> <<convertAPIVideoToVideoInfo("a3", "Unions")>>]>>} }

InitUrl ==
  /\ RenderAtRest
  /\ InputAtRest
  /\ route \in Routes
  /\ posted \in PostedBodies
  /\ memory = EmptyMap
  /\ shareLink = [sessionId |-> Absent]
  /\ fetched = [status |-> 0, fromData |-> FALSE]
  /\ serverNow \in {0, 7}
  /\ serverSessions = EmptyMap
  /\ http = [request |-> [method |-> "none"], response |-> [status |-> 0]]
  /\ issued = {}
  /\ sharedPage = [sessionId |-> Absent, session |-> NullSession,
                   error |-> Absent, loading |-> TRUE]
  /\ currentSession = ViewedSession
  /\ localStorage = <<currentSession>>
  /\ savedSessions = getSavedSessions
  /\ state = InitialState(settings)
  /\ isWindowFocused = TRUE
  /\ isVideoPlaying = FALSE
  /\ lastOp = "mount"
  /\ HookAtRest

NextUrl ==
  \/ UrlPost
  \/ ColdStart
  \/ UrlGet

SpecUrl == InitUrl /\ [][NextUrl]_vars

IdsAndTitles(videos) ==
  [k \in 1..Len(videos) |-> [id |-> videos[k].id, title |-> videos[k].title]]

PlaylistIdsAndTitles(playlists) ==
  [k \in 1..Len(playlists) |->
     [id |-> playlists[k].id, title |-> playlists[k].title,
      videos |-> IdsAndTitles(playlists[k].videos)]]

\* C8: for a session accepted by POST, a GET with the returned id and the
\* data parameter of the returned share URL, served by an instance whose
\* memory does not hold the id, returns the name, the createdAt and the
\* ordered videos and playlists (ids and titles) that were posted.
C8_UrlRoundTrip ==
  fetched.fromData =>
    /\ fetched.status = 200
    /\ fetched.name = posted.name
    /\ fetched.createdAt = shareLink.createdAt
    /\ IdsAndTitles(fetched.videos) = IdsAndTitles(posted.videos)
    /\ PlaylistIdsAndTitles(fetched.playlists)
         = PlaylistIdsAndTitles(posted.playlists)

\* C11: every successful POST stores the new session under an id that no
\* stored session uses, so creating a share overwrites no shared session
\* and changes nothing of what an earlier share URL resolves to.
C11_UniqueIds ==
  [][(ShareSession /\ http'.response.status = 200) =>
       LET kept == cleanupExpiredSessions(serverSessions, serverNow)
       IN /\ http'.response.sessionId \notin DOMAIN kept
          /\ \A id \in DOMAIN kept :
               /\ id \in DOMAIN serverSessions'
               /\ serverSessions'[id] = kept[id]]_vars

(***************************************************************************)
(* route.ts as any HTTP client can call it: bodies that are no JSON, that  *)
(* are null, or whose videos and playlists are missing, no arrays or hold  *)
(* malformed entries; GET with and without an id.  A JSON value is written *)
(* with its kind: absent (undefined), array or string.                     *)
(***************************************************************************)
absentValue == [kind |-> "absent", items |-> <<>>, text |-> ""]
arrayValue(items) == [kind |-> "array", items |-> items, text |-> ""]
stringValue(text) == [kind |-> "string", items |-> <<>>, text |-> text]

\* JavaScript truthiness of a JSON value.
truthy(value) ==
  \/ value.kind = "array"
  \/ value.kind = "string" /\ value.text # ""

\* !videos || !Array.isArray(videos) || videos.length === 0
noEntries(value) ==
  ~truthy(value) \/ value.kind # "array" \/ Len(value.items) = 0

\* videos || []
orEmptyArray(value) == IF truthy(value) THEN value.items ELSE <<>>

\* saveSessions: fs.writeFileSync may throw; the error is caught and logged
\* there.  The exceptions raised by the call, none or one.
saveSessions(writeFails) == IF writeFails THEN {"writeFileSync"} ELSE {}

\* POST of route.ts for a request whose body text is raw: the store
\* afterwards, the response, the exceptions raised while the request was
\* handled and those that reached the catch of the handler.
postRequest(store, t, raw, sessionId, writeFails) ==
  LET failed(why, stored) ==
        [store |-> store,
         response |-> [status |-> 500, error |-> "Failed to create session"],
         raised |-> {why}, caught |-> {why}]
      refused(error) ==
        [store |-> store, response |-> [status |-> 400, error |-> error],
         raised |-> {}, caught |-> {}]
  IN IF raw.json = "invalid" THEN failed("request.json", store)
     ELSE IF raw.json = "null" THEN failed("destructuring", store)
     ELSE IF noEntries(raw.videos) /\ noEntries(raw.playlists)
     THEN refused("At least one video or playlist is required")
     ELSE IF truthy(raw.videos) /\ raw.videos.kind # "array"
     THEN failed("videos.every", store)
     ELSE IF truthy(raw.videos)
             /\ ~(\A i \in 1..Len(raw.videos.items) :
                    isValidVideo(raw.videos.items[i]))
     THEN refused("Invalid video format")
     ELSE IF truthy(raw.playlists) /\ raw.playlists.kind # "array"
     THEN failed("playlists.every", store)
     ELSE IF truthy(raw.playlists)
             /\ ~(\A i \in 1..Len(raw.playlists.items) :
                    isValidPlaylist(raw.playlists.items[i]))
     THEN refused("Invalid playlist format")
     ELSE LET r == POST(store, t,
                        [name |-> raw.name,
                         videos |-> orEmptyArray(raw.videos),
                         playlists |-> orEmptyArray(raw.playlists)],
                        sessionId)
          IN [store |-> r.store, response |-> r.response,
              raised |-> saveSessions(writeFails), caught |-> {}]

\* GET of route.ts with the exceptions raised: cleanupExpiredSessions saves
\* the file when it deleted something.
getRequest(store, t, sessionId, writeFails) ==
  LET r == GET(store, t, sessionId)
  IN [store |-> r.store, response |-> r.response,
      raised |-> IF r.store # store THEN saveSessions(writeFails) ELSE {},
      caught |-> {}]

RawVideos ==
  { absentValue, arrayValue(<<>>), stringValue("abc"),
    arrayValue(<<convertAPIVideoToVideoInfo("a1", "Groups and rings")>>),
    arrayValue(<<Video("v1")>>) }

RawPlaylists ==
  { absentValue, stringValue("abc"),
    arrayValue(<<[id |-> "PL9",
                  url |-> "https://www.youtube.com/playlist?list=PL9",
                  title |-> "Linear algebra",
                  videos |-> <<convertAPIVideoToVideoInfo("a2", "Bases")>>]>>),
    arrayValue(<<[id |-> "PL1",
                  url |-> "https://www.youtube.com/playlist?list=PL1",
                  title |-> "Loading playlist...",
                  videos |-> placeholderVideos("PL1")]>>) }

RawBodies ==
  { [json |-> "object", name |-> "Algebra", videos |-> v, playlists |-> p] :
      v \in RawVideos, p \in RawPlaylists }
  \cup { [json |-> j, name |-> Absent, videos |-> absentValue,
          playlists |-> absentValue] : j \in {"null", "invalid"} }

\* The ids asked for: none, one never issued, and those generateSessionId
\* can return.
RequestedIds == {Absent, "notfound"} \cup generateSessionId

PostRequest ==
  /\ \E raw \in RawBodies, sessionId \in generateSessionId,
        writeFails \in BOOLEAN :
       LET r == postRequest(serverSessions, serverNow, raw, sessionId,
                            writeFails)
       IN /\ serverSessions' = r.store
          /\ http' = [request |-> [method |-> "POST", body |-> raw],
                      response |-> r.response,
                      raised |-> r.raised, caught |-> r.caught]
  /\ UNCHANGED <<serverNow, issued, sharedPage>>
  /\ UNCHANGED <<viewVars, isWindowFocused, now, hookVars, urlVars, inputVars, renderVars>>

GetRequest ==
  /\ \E sessionId \in RequestedIds, writeFails \in BOOLEAN :
       LET r == getRequest(serverSessions, serverNow, sessionId, writeFails)
       IN /\ serverSessions' = r.store
          /\ http' = [request |-> [method |-> "GET", id |-> sessionId],
                      response |-> r.response,
                      raised |-> r.raised, caught |-> r.caught]
  /\ UNCHANGED <<serverNow, issued, sharedPage>>
  /\ UNCHANGED <<viewVars, isWindowFocused, now, hookVars, urlVars, inputVars, renderVars>>

InitApi ==
  /\ RenderAtRest
  /\ InputAtRest
  /\ serverNow = 0
  /\ serverSessions = EmptyMap
  /\ http = [request |-> [method |-> "none"], response |-> [status |-> 0],
             raised |-> {}, caught |-> {}]
  /\ issued = {}
  /\ sharedPage = [sessionId |-> Absent, session |-> NullSession,
                   error |-> Absent, loading |-> TRUE]
  /\ currentSession = ViewedSession
  /\ localStorage = <<currentSession>>
  /\ savedSessions = getSavedSessions
  /\ state = InitialState(settings)
  /\ isWindowFocused = TRUE
  /\ isVideoPlaying = FALSE
  /\ lastOp = "mount"
  /\ HookAtRest
  /\ UrlAtRest

NextApi ==
  \/ PostRequest
  \/ GetRequest
  \/ AdvanceServerClock

SpecApi == InitApi /\ [][NextApi]_vars

\* A body with neither a non-empty videos array nor a non-empty playlists
\* array, or with arrays that hold a malformed video or playlist.
Refusable(raw) ==
  /\ raw.json = "object"
  /\ \/ noEntries(raw.videos) /\ noEntries(raw.playlists)
     \/ /\ raw.videos.kind \in {"array", "absent"}
        /\ raw.playlists.kind \in {"array", "absent"}
        /\ \/ \E i \in 1..Len(raw.videos.items) :
                ~isValidVideo(raw.videos.items[i])
           \/ \E i \in 1..Len(raw.playlists.items) :
                ~isValidPlaylist(raw.playlists.items[i])

\* A step in which route.ts served a POST, a GET: the clock stands still
\* in it, and no other step of the server does that.
ServedPost == serverNow' = serverNow /\ http'.request.method = "POST"
ServedGet == serverNow' = serverNow /\ http'.request.method = "GET"

\* The answers of route.ts to requests that cannot be served.
RefusalsAndMisses ==
  /\ ServedPost /\ Refusable(http'.request.body) =>
       http'.response.status = 400 /\ serverSessions' = serverSessions
  /\ ServedGet /\ http'.request.id = Absent => http'.response.status = 400
  /\ ServedGet /\ http'.request.id # Absent
       /\ http'.request.id \notin
            DOMAIN cleanupExpiredSessions(serverSessions, serverNow) =>
       http'.response.status = 404

\* C12: a POST with neither a non-empty videos array nor a non-empty
\* playlists array, or with a malformed video or playlist, returns 400 and
\* leaves the store unchanged; a GET without an id returns 400; a GET for an
\* unknown or expired id returns 404; any exception raised while a request
\* is handled yields 500, never a success response.
C12_HttpErrors ==
  [][/\ RefusalsAndMisses
     /\ (ServedPost \/ ServedGet) /\ http'.raised # {} =>
          http'.response.status = 500]_vars

\* C12 with the last part stated of the exceptions that reach the catch of
\* the handler: those yield 500 and leave the store unchanged, and 500 is
\* returned for no other reason; an exception of writeFileSync is caught in
\* saveSessions and does not change the response.
C12_HandlerErrors ==
  [][/\ RefusalsAndMisses
     /\ (ServedPost \/ ServedGet) =>
          /\ http'.caught # {} <=> http'.response.status = 500
          /\ http'.caught # {} => serverSessions' = serverSessions
          /\ http'.raised \ http'.caught \subseteq {"writeFileSync"}]_vars

C12_Witness ==
  /\ http.request.method = "POST"
  /\ http.raised = {"writeFileSync"}
  /\ http.caught = {}
  /\ http.response.status = 200
  /\ http.response.sessionId \in DOMAIN serverSessions

(***************************************************************************)
(* Sharing while sessions are being watched: the sharer's view makes       *)
(* progress, and so does the SessionView the recipient's page renders for  *)
(* the session it loaded.                                                  *)
(***************************************************************************)
\* The focus-time interval of the recipient's SessionView: updateSession
\* hands the session to the page (setSession) and saves it.
RecipientFocusTick ==
  /\ sharedPage.session # NullSession
  /\ sharedPage.session.focusTime < MaxFocusTime
  /\ LET updated == [sharedPage.session EXCEPT
                       !.focusTime = @ + 1, !.totalStudyTime = @ + 1]
     IN /\ sharedPage' = [sharedPage EXCEPT !.session = updated]
        /\ localStorage' = saveSession(updated)
  /\ UNCHANGED <<state, currentSession, isVideoPlaying, savedSessions, lastOp>>
  /\ UNCHANGED <<serverNow, serverSessions, http, issued>>
  /\ UNCHANGED <<isWindowFocused, now, hookVars, urlVars, inputVars, renderVars>>

NextShareProgress ==
  \/ ShareSession
  \/ OpenShareLink
  \/ HandleVideoPlay
  \/ FocusTick
  \/ HandleVideoEnd
  \/ RecipientFocusTick

SpecShareProgress == InitShare /\ [][NextShareProgress]_vars

\* What every share URL handed out resolves to.
Resolves(store, t) ==
  [id \in generateSessionId |-> GET(store, t, id).response]

\* C13: the GET response holds only id, name, videos, playlists and
\* createdAt; the session a recipient opens starts with currentVideoIndex,
\* focusTime, totalStudyTime and completedPomodoros 0 whatever the sharer's
\* progress was; progress of the sharer or of a recipient changes nothing of
\* what a share URL returns.
C13_OnlyCollection ==
  /\ [](http.request.method = "GET" /\ http.response.status = 200 =>
          DOMAIN http.response =
            {"status", "id", "name", "videos", "playlists", "createdAt"})
  /\ [][OpenShareLink /\ sharedPage'.session # NullSession =>
          /\ sharedPage'.session.currentVideoIndex = 0
          /\ sharedPage'.session.focusTime = 0
          /\ sharedPage'.session.totalStudyTime = 0
          /\ sharedPage'.session.completedPomodoros = 0]_vars
  /\ [][(currentSession' # currentSession
           \/ sharedPage'.session # sharedPage.session) /\ ~OpenShareLink =>
          /\ serverSessions' = serverSessions
          /\ Resolves(serverSessions', serverNow')
               = Resolves(serverSessions, serverNow)]_vars

C13_Witness ==
  /\ sharedPage.session # NullSession
  /\ sharedPage.session.focusTime = 0
  /\ http.request.method = "GET"
  /\ http.response.status = 200
  /\ currentSession.focusTime > 0
  /\ \E l \in issued :
       /\ l.id = sharedPage.sessionId
       /\ l.shared.focusTime > 0
       /\ l.shared.currentVideoIndex > 0

\* What a GET answers from the data parameter alone.
DecodedAnswer(r, sessionId, encodedData) ==
  LET decodedData == decodeSessionData(r, encodedData)
  IN [id |-> sessionId,
      name |-> decodedData.name,
      videos |-> JsonVideos(decodedData.videos),
      playlists |-> JsonPlaylists(decodedData.playlists),
      createdAt |-> decodedData.createdAt]

\* C14: a GET that carries an id and a validly encoded data parameter
\* returns the session encoded in the data parameter, whatever requests
\* (POSTs, earlier GETs with the id) the instance served before.
C14_Stateless ==
  [][UrlGet /\ Len(shareLink.data) > 0 =>
       /\ fetched'.status = 200
       /\ [id |-> fetched'.id, name |-> fetched'.name,
           videos |-> fetched'.videos, playlists |-> fetched'.playlists,
           createdAt |-> fetched'.createdAt]
            = DecodedAnswer(route, shareLink.sessionId, shareLink.data[1])]_vars

(***************************************************************************)
(* src/app/page.tsx: Home, the main page, which lists the saved sessions   *)
(* and renders the SessionView of its currentSession (null on the main     *)
(* page itself), and deleteSession of src/lib/session.ts.                  *)
(***************************************************************************)
\* deleteSession: the saved array without the entries of the id.
deleteSession(id) ==
  SelectSeq(getSavedSessions, LAMBDA saved : saved.id # id)

\* The names and contents the form of the main page is filled with.
SessionNames == {"Topology", " Topology ", " ", ""}
SessionContents ==
  { [videos |-> <<Video("t1")>>, playlists |-> <<>>],
    [videos |-> <<>>, playlists |-> <<Playlist("PLt", <<Video("t2")>>)>>],
    [videos |-> <<>>, playlists |-> <<>>] }

\* useState(session) and the hooks of a SessionView that mounts for session.
mountSessionView(session) ==
  /\ currentSession' = session
  /\ state' = InitialState(session.pomodoroSettings)
  /\ isVideoPlaying' = FALSE
  /\ lastOp' = "mount"

\* createSession; the id that generateSessionId returns is in use nowhere.
CreateSession ==
  /\ currentSession = NullSession
  /\ \E sessionName \in SessionNames, content \in SessionContents :
       /\ ~ (trim(sessionName) = ""
             \/ (Len(content.videos) = 0 /\ Len(content.playlists) = 0))
       /\ LET session == createNewSession(trim(sessionName), content.videos,
                                          content.playlists)
          IN /\ getSessionById(session.id) = NullSession
             /\ mountSessionView(session)
  /\ UNCHANGED <<localStorage, savedSessions, isWindowFocused>>
  /\ UNCHANGED <<now, hookVars, shareVars, urlVars, inputVars, renderVars>>

\* loadSession, the Continue button of an entry of the list.
LoadSession ==
  /\ currentSession = NullSession
  /\ \E i \in 1..Len(savedSessions) : mountSessionView(savedSessions[i])
  /\ UNCHANGED <<localStorage, savedSessions, isWindowFocused>>
  /\ UNCHANGED <<now, hookVars, shareVars, urlVars, inputVars, renderVars>>

\* exitSession: Home shows the main page again, with the list it holds.
ExitSession ==
  /\ currentSession # NullSession
  /\ currentSession' = NullSession
  /\ isVideoPlaying' = FALSE
  /\ state' = InitialState(DEFAULT_POMODORO_SETTINGS)
  /\ lastOp' = "mount"
  /\ UNCHANGED <<localStorage, savedSessions, isWindowFocused>>
  /\ UNCHANGED <<now, hookVars, shareVars, urlVars, inputVars, renderVars>>

\* handleDeleteSession, the delete button of an entry of the list.
HandleDeleteSession ==
  /\ currentSession = NullSession
  /\ \E i \in 1..Len(savedSessions) :
       LET sessionId == savedSessions[i].id
       IN /\ localStorage' = deleteSession(sessionId)
          /\ savedSessions' =
               SelectSeq(savedSessions, LAMBDA saved : saved.id # sessionId)
  /\ UNCHANGED <<state, currentSession, isVideoPlaying, lastOp,
                 isWindowFocused>>
  /\ UNCHANGED <<now, hookVars, shareVars, urlVars, inputVars, renderVars>>

\* The page is loaded anew: Home mounts and its effect reads local storage.
MountHome ==
  /\ currentSession = NullSession
  /\ savedSessions' = getSavedSessions
  /\ UNCHANGED <<state, currentSession, isVideoPlaying, lastOp, localStorage,
                 isWindowFocused>>
  /\ UNCHANGED <<now, hookVars, shareVars, urlVars, inputVars, renderVars>>

\* The handlers of the SessionView exist while Home renders it.
ViewVideoPlay == currentSession # NullSession /\ HandleVideoPlay
ViewFocusTick == currentSession # NullSession /\ FocusTick
ViewVideoEnd == currentSession # NullSession /\ HandleVideoEnd

SavedBefore ==
  { <<>>, <<JsonSession(OtherSession)>>,
    <<JsonSession(OtherSession), JsonSession(ViewedSession)>> }

InitHome ==
  /\ RenderAtRest
  /\ InputAtRest
  /\ currentSession = NullSession
  /\ localStorage \in SavedBefore
  /\ savedSessions = getSavedSessions
  /\ state = InitialState(DEFAULT_POMODORO_SETTINGS)
  /\ isWindowFocused = TRUE
  /\ isVideoPlaying = FALSE
  /\ lastOp = "mount"
  /\ HookAtRest
  /\ ShareAtRest
  /\ UrlAtRest

NextHome ==
  \/ CreateSession
  \/ LoadSession
  \/ ExitSession
  \/ HandleDeleteSession
  \/ MountHome
  \/ ViewVideoPlay
  \/ ViewFocusTick
  \/ ViewVideoEnd

SpecHome == InitHome /\ [][NextHome]_vars

Ids(list) == {list[i].id : i \in 1..Len(list)}

Without(list, id) == SelectSeq(list, LAMBDA saved : saved.id # id)

\* C15: when the user exits a session that was saved while it was viewed,
\* the Saved Sessions list of the main page holds it; and a deleted
\* session is neither in the list nor in local storage afterwards, while
\* the other saved sessions stay as they were.
C15_ResumeAndDelete ==
  /\ [][(ExitSession /\ currentSession.id \in Ids(localStorage)) =>
          currentSession.id \in Ids(savedSessions')]_vars
  /\ [][HandleDeleteSession =>
          \E id \in Ids(savedSessions) :
            /\ id \notin Ids(savedSessions')
            /\ id \notin Ids(localStorage')
            /\ savedSessions' = Without(savedSessions, id)
            /\ localStorage' = Without(localStorage, id)]_vars

(***************************************************************************)
(* src/lib/youtube.ts: parseYouTubeUrlsAsync, with createYouTubeAPI of     *)
(* src/lib/youtube-api.ts.  The methods of YouTubeAPI catch their own      *)
(* errors: a call either finds what it asks for or returns null or [].     *)
(***************************************************************************)
NoApi == "<no api>"

\* createYouTubeAPI taking the placeholder of the README for a key.
createYouTubeAPI_acceptsPlaceholder(key) ==
  IF key = Undef \/ key = "" THEN NoApi ELSE key

\* createYouTubeAPI: null without a key or with the placeholder, else an
\* API object holding the key.
createYouTubeAPI(key) ==
  IF key = Undef \/ key = "" \/ key = "your_youtube_api_key_here"
  THEN NoApi ELSE key

\* The body of the for loop of parseYouTubeUrlsAsync for the url at index
\* (0-based); found tells whether the API finds what it is asked for.
asyncOne(acc, url, index, found) ==
  LET trimmedUrl == trim(url)
      playlistId == extractPlaylistId(trimmedUrl)
      videoId == extractVideoId(trimmedUrl)
  IN IF trimmedUrl = "" THEN acc
     ELSE IF ~isValidYouTubeUrl(trimmedUrl)
     THEN [acc EXCEPT !.errors =
             Append(@, "Invalid YouTube URL at line " \o ToString(index + 1)
                         \o ": " \o trimmedUrl)]
     ELSE IF playlistId # Absent
     THEN IF ~found
          THEN [acc EXCEPT
                  !.calls = @ + 2,
                  !.errors = Append(@, "Playlist " \o playlistId
                                         \o " is empty or inaccessible")]
          ELSE [acc EXCEPT
                  !.calls = @ + 3,
                  !.playlists =
                    Append(@, [id |-> playlistId, url |-> trimmedUrl,
                               title |-> "Lectures",
                               videos |-> <<convertAPIVideoToVideoInfo(
                                              playlistId \o "_first",
                                              "Lecture 1")>>])]
     ELSE IF videoId # Absent
     THEN IF found
          THEN [acc EXCEPT
                  !.calls = @ + 1,
                  !.videos = Append(@, convertAPIVideoToVideoInfo(
                                         videoId, "Lecture"))]
          ELSE [acc EXCEPT
                  !.calls = @ + 1,
                  !.videos = Append(@, [id |-> videoId, url |-> trimmedUrl,
                                        title |-> "Video " \o videoId,
                                        thumbnail |-> Absent])]
     ELSE [acc EXCEPT !.errors =
             Append(@, "Could not extract video or playlist ID from: "
                         \o trimmedUrl)]

RECURSIVE asyncUpTo(_, _, _)
asyncUpTo(urls, n, found) ==
  IF n = 0
  THEN [videos |-> <<>>, playlists |-> <<>>, errors |-> <<>>, calls |-> 0]
  ELSE asyncOne(asyncUpTo(urls, n - 1, found), urls[n], n - 1, found)

\* parseYouTubeUrlsAsync: the result with the number of API calls made.
parseYouTubeUrlsAsync(key, urls, found) ==
  IF createYouTubeAPI(key) = NoApi
  THEN [videos |-> parseYouTubeUrls(urls).videos,
        playlists |-> parseYouTubeUrls(urls).playlists,
        errors |-> parseYouTubeUrls(urls).errors,
        calls |-> 0]
  ELSE asyncUpTo(urls, Len(urls), found)

\* The values of the environment variable and the lines that are explored.
ApiKeys == {Undef, "", "your_youtube_api_key_here", "AIzaSyExample"}

MaxLines == 2

UrlTexts ==
  { "https://youtu.be/v1",
    " https://www.youtube.com/watch?v=v2 ",
    "https://www.youtube.com/playlist?list=PL1",
    "https://www.youtube.com/watch?v=v3&list=PL2",
    "https://example.com/watch?v=v4",
    "https://www.youtube.com/feed",
    " " }

RECURSIVE Lines(_)
Lines(n) ==
  IF n = 0 THEN { <<>> }
  ELSE Lines(n - 1) \cup
         { Append(ls, t) : ls \in {l \in Lines(n - 1) : Len(l) = n - 1},
                           t \in UrlTexts }

\* A caller awaits parseYouTubeUrlsAsync for the pasted lines.
ParseUrlsAsync ==
  /\ ~parsed.done
  /\ \E found \in BOOLEAN :
       LET result == parseYouTubeUrlsAsync(apiKey, pastedUrls, found)
       IN /\ parsed' = [videos |-> result.videos,
                        playlists |-> result.playlists,
                        errors |-> result.errors, done |-> TRUE]
          /\ apiCalls' = result.calls
  /\ UNCHANGED <<apiKey, pastedUrls>>
  /\ UNCHANGED <<viewVars, isWindowFocused, now, hookVars, shareVars, urlVars,
                 renderVars>>

InitParse ==
  /\ RenderAtRest
  /\ apiKey \in ApiKeys
  /\ pastedUrls \in Lines(MaxLines)
  /\ parsed = [videos |-> <<>>, playlists |-> <<>>, errors |-> <<>>,
               done |-> FALSE]
  /\ apiCalls = 0
  /\ currentSession = ViewedSession
  /\ localStorage = <<currentSession>>
  /\ savedSessions = getSavedSessions
  /\ state = InitialState(settings)
  /\ isWindowFocused = TRUE
  /\ isVideoPlaying = FALSE
  /\ lastOp = "mount"
  /\ HookAtRest
  /\ ShareAtRest
  /\ UrlAtRest

NextParse == ParseUrlsAsync

SpecParse == InitParse /\ [][NextParse]_vars

\* The lines that are playlist URLs, and those that are individual video
\* URLs, trimmed and in their order.
PlaylistUrls(urls) ==
  SelectSeq([i \in 1..Len(urls) |-> trim(urls[i])],
            LAMBDA u : /\ u # ""
                       /\ isValidYouTubeUrl(u)
                       /\ extractPlaylistId(u) # Absent)

VideoUrls(urls) ==
  SelectSeq([i \in 1..Len(urls) |-> trim(urls[i])],
            LAMBDA u : /\ u # ""
                       /\ isValidYouTubeUrl(u)
                       /\ extractPlaylistId(u) = Absent
                       /\ extractVideoId(u) # Absent)

\* C16: without a configured API key (none, empty, or the placeholder of
\* the README), parseYouTubeUrlsAsync resolves to exactly the result of
\* parseYouTubeUrls for the same lines and calls the API not once; every
\* playlist URL yields a playlist of 5 placeholder videos and every
\* individual video URL a video with its extracted id.
C16_FallbackWithoutKey ==
  (parsed.done /\ apiKey \in {Undef, "", "your_youtube_api_key_here"}) =>
     /\ [videos |-> parsed.videos, playlists |-> parsed.playlists,
         errors |-> parsed.errors] = parseYouTubeUrls(pastedUrls)
     /\ apiCalls = 0
     /\ Len(parsed.playlists) = Len(PlaylistUrls(pastedUrls))
     /\ \A i \in 1..Len(parsed.playlists) :
          /\ parsed.playlists[i].id
               = extractPlaylistId(PlaylistUrls(pastedUrls)[i])
          /\ Len(parsed.playlists[i].videos) = 5
          /\ \A k \in 1..5 :
               parsed.playlists[i].videos[k].title
                 = "Loading playlist video " \o ToString(k) \o "..."
     /\ Len(parsed.videos) = Len(VideoUrls(pastedUrls))
     /\ \A i \in 1..Len(parsed.videos) :
          parsed.videos[i].id = extractVideoId(VideoUrls(pastedUrls)[i])

C16_Witness ==
  /\ parsed.done
  /\ apiKey = "your_youtube_api_key_here"
  /\ Len(parsed.playlists) = 1
  /\ Len(parsed.videos) = 1
  /\ apiCalls = 0

\* C17: whenever the focus signal (window focused and video playing)
\* becomes false while the timer is running, the timer is back in the idle
\* state with isRunning false, timeRemaining = workDuration * 60,
\* completedPomodoros 0 and currentCycle 1; and the timer never runs while
\* the signal is false.
C17_ResetOnFocusLoss ==
  /\ [][(/\ state.isRunning
         /\ focusSignal(isWindowFocused, isVideoPlaying)
         /\ ~focusSignal(isWindowFocused', isVideoPlaying')) =>
          /\ state'.phase = "idle"
          /\ ~state'.isRunning
          /\ state'.timeRemaining = settings.workDuration * 60
          /\ state'.completedPomodoros = 0
          /\ state'.currentCycle = 1]_vars
  /\ [](state.isRunning => focusSignal(isWindowFocused, isVideoPlaying))

\* The video was paused in a break after a completed work phase, and the
\* timer is idle again with no completed pomodoro.
C17_Witness ==
  /\ lastOp = "resetOnFocusLoss"
  /\ isWindowFocused
  /\ ~isVideoPlaying
  /\ state = InitialState(settings)

\* C18: from pauseTimer until the next startTimer, skipPhase or resetTimer
\* the timer state does not change and isRunning stays false, whatever the
\* interval callback that was scheduled when the timer was paused does; and
\* the startTimer that follows resumes the same phase with the same
\* timeRemaining.
C18_PausedStaysPaused ==
  /\ [](lastOp = "pauseTimer" => ~state.isRunning)
  /\ [][lastOp = "pauseTimer" =>
          \/ state' = state
          \/ lastOp' \in {"startTimer", "skipPhase", "resetTimer"}]_vars
  /\ [][(lastOp = "pauseTimer" /\ lastOp' = "startTimer") =>
          /\ state'.isRunning
          /\ state'.phase = state.phase
          /\ state'.timeRemaining = state.timeRemaining
          /\ state'.completedPomodoros = state.completedPomodoros
          /\ state'.currentCycle = state.currentCycle]_vars

\* Paused in a break, a second into it, after one completed work phase.
C18_Witness ==
  /\ lastOp = "pauseTimer"
  /\ ~state.isRunning
  /\ state.phase \in {"shortBreak", "longBreak"}
  /\ state.timeRemaining >= 1
  /\ state.timeRemaining < getPhaseDuration(state.phase, settings)
  /\ state.completedPomodoros = 1

\* C19: skipPhase being invoked only while the timer runs, and so never in
\* the idle phase, currentCycle = completedPomodoros + 1 whenever the phase
\* is idle or work, and currentCycle = completedPomodoros whenever it is
\* shortBreak or longBreak.
C19_CycleCounter ==
  /\ state.phase \in {"idle", "work"} =>
       state.currentCycle = state.completedPomodoros + 1
  /\ state.phase \in {"shortBreak", "longBreak"} =>
       state.currentCycle = state.completedPomodoros

\* The second work phase, entered by skipping the first break.
C19_Witness ==
  /\ lastOp = "skipPhase"
  /\ state.phase = "work"
  /\ state.completedPomodoros = 1
  /\ state.currentCycle = 2

\* C20: with durations of at least one minute in settings that stay as
\* they are, 1 <= timeRemaining <= 60 * duration(phase) in every state with
\* a phase other than idle, so timeRemaining never rests at 0 and is never
\* negative; in the idle phase timeRemaining = 60 * workDuration and
\* isRunning is false.
C20_CountdownBounds ==
  PositiveDurations =>
    /\ state.phase # "idle" =>
         /\ 1 <= state.timeRemaining
         /\ state.timeRemaining <= FullDuration(state.phase)
    /\ state.phase = "idle" =>
         /\ state.timeRemaining = 60 * settings.workDuration
         /\ ~state.isRunning

\* The last second of a break, paused.
C20_Witness ==
  /\ PositiveDurations
  /\ lastOp = "pauseTimer"
  /\ state.phase = "shortBreak"
  /\ state.timeRemaining = 1

\* What the countdown yields when it completes the phase of prev: the
\* interval callback run in the last second of the phase.
completing(prev, s) == tick([prev EXCEPT !.timeRemaining = 1], s)

\* C21: from every state with a phase other than idle, skipPhase yields
\* the phase, timeRemaining, completedPomodoros and currentCycle that the
\* countdown completing the phase yields; skipPhase leaves isRunning as it
\* is where completion sets it to true; and a skipped work phase counts as
\* a completed pomodoro.
C21_SkipEqualsCompleting ==
  /\ [](state.phase # "idle" =>
          /\ skipPhase(state, settings)
               = [completing(state, settings)
                    EXCEPT !.isRunning = state.isRunning]
          /\ completing(state, settings).isRunning
          /\ state.phase = "work" =>
               skipPhase(state, settings).completedPomodoros
                 = state.completedPomodoros + 1)
  /\ [][lastOp' = "skipPhase" =>
          /\ state'.phase = completing(state, settings).phase
          /\ state'.timeRemaining = completing(state, settings).timeRemaining
          /\ state'.completedPomodoros
               = completing(state, settings).completedPomodoros
          /\ state'.currentCycle = completing(state, settings).currentCycle
          /\ state'.isRunning = state.isRunning]_vars

\* A work phase was skipped into the long break, counted as a pomodoro.
C21_Witness ==
  /\ lastOp = "skipPhase"
  /\ state.phase = "longBreak"
  /\ state.isRunning
  /\ state.completedPomodoros >= 1
  /\ state.timeRemaining = getPhaseDuration("longBreak", settings)

(***************************************************************************)
(* src/components/SessionView.tsx between two renders.  updateSession and  *)
(* the callbacks built on it are useCallback closures over currentSession: *)
(* a callback merges its update into the session of the last committed     *)
(* render.  setCurrentSession from a timer or a player event does not      *)
(* render at once, so a further callback can run before the render that    *)
(* would hand it the updated session.                                      *)
(***************************************************************************)
\* The interval callback of the focus-time effect of the last render.
ClosureFocusTick ==
  /\ isWindowFocused /\ isVideoPlaying
  /\ closureSession.focusTime < MaxFocusTime
  /\ UpdateSession([closureSession EXCEPT
                      !.focusTime = closureSession.focusTime + 1,
                      !.totalStudyTime = closureSession.totalStudyTime + 1])
  /\ UNCHANGED <<state, isWindowFocused, isVideoPlaying, lastOp>>
  /\ UNCHANGED <<now, hookVars, shareVars, urlVars, inputVars, renderVars>>

\* handleVideoEnd of the last render.
ClosureVideoEnd ==
  /\ IF closureSession.currentVideoIndex < Len(allVideos(closureSession)) - 1
     THEN UpdateSession([closureSession EXCEPT
                           !.currentVideoIndex =
                             closureSession.currentVideoIndex + 1])
     ELSE UNCHANGED <<currentSession, localStorage, savedSessions>>
  /\ UNCHANGED <<state, isWindowFocused, isVideoPlaying, lastOp>>
  /\ UNCHANGED <<now, hookVars, shareVars, urlVars, inputVars, renderVars>>

\* handleVideoChange of the last render, from a click on the video queue;
\* the update of a click is rendered before anything else runs.
ClosureVideoChange ==
  /\ \E index \in 0..(Len(allVideos(closureSession)) - 1) :
       UpdateSession([closureSession EXCEPT !.currentVideoIndex = index])
  /\ closureSession' = currentSession'
  /\ UNCHANGED <<state, isWindowFocused, isVideoPlaying, lastOp>>
  /\ UNCHANGED <<now, hookVars, shareVars, urlVars, inputVars>>

\* handleVideoTitleUpdate of the last render, from onReady of the player.
ClosureVideoTitleUpdate ==
  /\ LET videoIndex == closureSession.currentVideoIndex
         all == allVideos(closureSession)
     IN IF videoIndex + 1 \in 1..Len(all)
        THEN UpdateSession(withVideoTitle(closureSession,
                                          playerTitle(all[videoIndex + 1]),
                                          videoIndex))
        ELSE UNCHANGED <<currentSession, localStorage, savedSessions>>
  /\ UNCHANGED <<state, isWindowFocused, isVideoPlaying, lastOp>>
  /\ UNCHANGED <<now, hookVars, shareVars, urlVars, inputVars, renderVars>>

\* handlePomodoroSettingsChange of the last render, from the settings
\* modal; the update of a click is rendered before anything else runs.
ClosurePomodoroSettingsChange ==
  /\ \E text \in IntervalTexts :
       LET changed == changedSettings(closureSession.pomodoroSettings,
                                      "longBreakInterval", text)
       IN /\ UpdateSession([closureSession EXCEPT
                              !.pomodoroSettings = changed])
          /\ state' = resetOnFocusLoss(state,
                        focusSignal(isWindowFocused, isVideoPlaying), changed)
          /\ lastOp' = opAfterFocusEffect(state,
                         focusSignal(isWindowFocused, isVideoPlaying))
  /\ closureSession' = currentSession'
  /\ UNCHANGED <<isWindowFocused, isVideoPlaying>>
  /\ UNCHANGED <<now, hookVars, shareVars, urlVars, inputVars>>

\* React renders the session view with the state that a timer or a player
\* event set last: the callbacks of this render close over it.
CommitRender ==
  /\ closureSession # currentSession
  /\ closureSession' = currentSession
  /\ UNCHANGED <<viewVars, isWindowFocused, now, hookVars, shareVars, urlVars,
                 inputVars>>

InitRender ==
  /\ InputAtRest
  /\ currentSession = ViewedSession
  /\ closureSession = currentSession
  /\ localStorage = <<OtherSession>>
  /\ savedSessions = getSavedSessions
  /\ state = InitialState(settings)
  /\ isWindowFocused = TRUE
  /\ isVideoPlaying = FALSE
  /\ lastOp = "mount"
  /\ HookAtRest
  /\ ShareAtRest
  /\ UrlAtRest

NextRender ==
  \/ HandleVideoPlay
  \/ HandleVideoPause
  \/ ClosureFocusTick
  \/ ClosureVideoEnd
  \/ ClosureVideoChange
  \/ ClosureVideoTitleUpdate
  \/ ClosurePomodoroSettingsChange
  \/ CommitRender

SpecRender == InitRender /\ [][NextRender]_vars

\* The focus time and the study time stored for the viewed session, as a
\* set that is empty while the session is not stored.
StoredTimes(list) ==
  { <<list[i].focusTime, list[i].totalStudyTime>> :
      i \in SavedEntries(list, currentSession.id) }

\* C22: in whatever order the focus tick and the video-end, video-change,
\* title-update and settings-change callbacks run, focusTime and
\* totalStudyTime of the session never decrease, in the state of the view
\* and in local storage: no update writes an older focusTime over a newer
\* one.
C22_FocusTimeMonotone ==
  [][/\ currentSession'.focusTime >= currentSession.focusTime
     /\ currentSession'.totalStudyTime >= currentSession.totalStudyTime
     /\ \A before \in StoredTimes(localStorage) :
          \A after \in StoredTimes(localStorage') :
            /\ after[1] >= before[1]
            /\ after[2] >= before[2]]_vars

(***************************************************************************)
(* The video queue of the session view: handleVideoEnd, the previous and   *)
(* next buttons of the header and of the player, and the queue entries.    *)
(***************************************************************************)
\* previousVideo of VideoPlayer: onVideoChange(currentIndex - 1).
PlayerPreviousVideo ==
  /\ currentSession.currentVideoIndex > 0
  /\ handleVideoChange(currentSession.currentVideoIndex - 1)
  /\ UNCHANGED <<state, isWindowFocused, isVideoPlaying, lastOp>>
  /\ UNCHANGED <<now, hookVars, shareVars, urlVars, inputVars, renderVars>>

\* nextVideo of VideoPlayer: onVideoChange(currentIndex + 1).
PlayerNextVideo ==
  /\ currentSession.currentVideoIndex < Len(allVideos(currentSession)) - 1
  /\ handleVideoChange(currentSession.currentVideoIndex + 1)
  /\ UNCHANGED <<state, isWindowFocused, isVideoPlaying, lastOp>>
  /\ UNCHANGED <<now, hookVars, shareVars, urlVars, inputVars, renderVars>>

\* Sessions of one video, of two videos and a playlist of one, and of one
\* pasted playlist with its five placeholders.
QueuedSessions ==
  { createNewSession("Sets", <<Video("s1")>>, <<>>),
    createNewSession("Groups", <<Video("g1"), Video("g2")>>,
                     <<Playlist("PLg", <<Video("g3")>>)>>),
    createNewSession("Rings", <<>>,
      parseYouTubeUrls(
        <<"https://www.youtube.com/playlist?list=PLr">>).playlists) }

InitQueue ==
  /\ RenderAtRest
  /\ InputAtRest
  /\ currentSession \in QueuedSessions
  /\ localStorage = <<OtherSession>>
  /\ savedSessions = getSavedSessions
  /\ state = InitialState(settings)
  /\ isWindowFocused = TRUE
  /\ isVideoPlaying = FALSE
  /\ lastOp = "mount"
  /\ HookAtRest
  /\ ShareAtRest
  /\ UrlAtRest

NextQueue ==
  \/ HandleVideoEnd
  \/ PreviousVideo
  \/ NextVideo
  \/ PlayerPreviousVideo
  \/ PlayerNextVideo
  \/ QueueSelect
  \/ HandleVideoTitleUpdate

SpecQueue == InitQueue /\ [][NextQueue]_vars

\* C23: for a session with at least one video, after any sequence of video
\* ends, previous and next actions and queue selections,
\* 0 <= currentVideoIndex <= allVideos.length - 1; a video that ends
\* advances the index by exactly one, except that the end of the last video
\* leaves the index as it is (no wrap-around).
C23_IndexInRange ==
  /\ [](Len(allVideos(currentSession)) >= 1 =>
          /\ 0 <= currentSession.currentVideoIndex
          /\ currentSession.currentVideoIndex
               <= Len(allVideos(currentSession)) - 1)
  /\ [][HandleVideoEnd =>
          currentSession'.currentVideoIndex =
            IF currentSession.currentVideoIndex
                 = Len(allVideos(currentSession)) - 1
            THEN currentSession.currentVideoIndex
            ELSE currentSession.currentVideoIndex + 1]_vars

\* The last of five videos is current and saved as such.
C23_Witness ==
  /\ Len(allVideos(currentSession)) = 5
  /\ currentSession.currentVideoIndex = 4
  /\ getSessionById(currentSession.id) # NullSession
  /\ getSessionById(currentSession.id).currentVideoIndex = 4

====
